---- MODULE Spec2Model ----
(***************************************************************************)
(* Model of the crd-bootstrap controller: the Bootstrap reconciler         *)
(* (internal/controller), the chain of source providers (pkg/source) and   *)
(* the API objects they read and write.  One reconcile is a sequence of    *)
(* steps separated by the I/O calls of Reconcile: the API server, the      *)
(* upstream source and the target cluster can change between two steps.    *)
(***************************************************************************)
EXTENDS Integers, Sequences, FiniteSets, TLC

\* ------------------------------------------------------------------ bounds
\* The 1.x versions a semver source offers: v1.0 .. v1.MaxMinor.
MaxMinor == 1
\* Infrastructure failures (a failed API call, download, apply or wait) that
\* are injected in one behaviour.
MaxFaults == 1
\* Distinct upstream contents (manifest files) 1..MaxContent.
MaxContent == 2
\* A chart repository lists at most MaxChartVersions versions.
MaxChartVersions == 2
\* A reconcile starts only while every apply count is below this cap.
MaxApplyCount == 2
\* A manifest given to readObjects on its own has at most MaxDocs documents.
MaxDocs == 4
\* The channels the webhook server makes over its lifetime.
MaxChannels == 2

\* --------------------------------------------------------------- constants
\* spec.interval of the sample Bootstrap, in seconds.
IntervalSeconds == 10

\* The Bootstrap objects of the host cluster, by namespace and name.
Keys == {[ns |-> "ns1", name |-> "app"]}

\* The owner label value is metadata.name (obj.GetName()).
GetName(k) == k.name

Clusters == {"host", "remote"}
CRDNames == {"a", "b", "c"}
\* The order in which the API server lists CRDs (by name).
NameOrder == <<"a", "b", "c">>

\* -------------------------------------------------------- revision strings
\* A revision, a tag or a digest is a string; a string is modelled by its
\* form and its digits: "" (empty), "v1.2", "1.2", a garbage tag, or the hex
\* digest of a content.
NoRev == [form |-> "", major |-> 0, minor |-> 0]
VerStr(f, M, m) == [form |-> f, major |-> M, minor |-> m]
BadStr == [form |-> "bad", major |-> 0, minor |-> 0]
HexStr(n) == [form |-> "hex", major |-> n, minor |-> 0]

\* The tags a source offers: "v1.<minor>", and "1.0", which is the same
\* version as "v1.0" under another spelling.
VerForms == {"v", "n"}
VersionStrs ==
  {VerStr("v", 1, m) : m \in 0..MaxMinor} \cup {VerStr("n", 1, 0)}
TagStrs == VersionStrs \cup {BadStr}
\* The versions a chart repository lists.
ChartTags == {VerStr("v", 1, m) : m \in 0..MaxMinor} \cup {BadStr}

\* semver.NewVersion: a leading "v" is dropped, a missing patch is 0; anything
\* else is an error.
NewVersion(s) ==
  IF s.form \in VerForms
  THEN [ok |-> TRUE, major |-> s.major, minor |-> s.minor]
  ELSE [ok |-> FALSE, major |-> 0, minor |-> 0]

\* Faulty variants of the comparisons: a HasUpdate that leaves the
\* GreaterThan (the Equal) test out.
GreaterThanOmitted(a, b) == FALSE
EqualOmitted(a, b) == FALSE

\* (*Version).Equal and (*Version).GreaterThan.
VEqual(a, b) == a.major = b.major /\ a.minor = b.minor
VGreaterThan(a, b) == a.major > b.major \/ (a.major = b.major /\ a.minor > b.minor)

\* A semver constraint string: ">=lo" or ">=lo <hi"; "" does not parse.
NoConstraint == [op |-> "", lo |-> <<0, 0>>, hi |-> <<0, 0>>]
AtLeast(M, m) == [op |-> "ge", lo |-> <<M, m>>, hi |-> <<0, 0>>]
Range(M, m, N, n) == [op |-> "range", lo |-> <<M, m>>, hi |-> <<N, n>>]
Constraints == {AtLeast(1, 0), Range(1, 0, 1, 1)}

\* semver.NewConstraint: TRUE when the constraint parses.
NewConstraintOK(c) == c.op \in {"ge", "range"}

\* (*Constraints).Check.
Check(c, v) ==
  LET geLo == v.major > c.lo[1] \/ (v.major = c.lo[1] /\ v.minor >= c.lo[2])
      ltHi == v.major < c.hi[1] \/ (v.major = c.hi[1] /\ v.minor < c.hi[2])
  IN  IF c.op = "ge" THEN geLo ELSE geLo /\ ltHi

\* ----------------------------------------------------------------- content
Contents == 1..MaxContent

\* hex.EncodeToString(sha256(content)): distinct contents, distinct digests.
Sha256Hex(c) == HexStr(c)

\* A YAML document: kind, name, labels (the owner label only), and, for a
\* CRD, the schema of its versions: "accepts" and "strict" accept the example
\* spec.template gives for its kind, "rejects" rejects it; "strict" is
\* "accepts" with a constraint tightened, "rejects" is tighter again.
Doc(kind, name, schema) ==
  [kind |-> kind, name |-> name, owner |-> "", schema |-> schema]

\* utils.ReadObjects of the file with the given content: the YAML documents
\* of the file, in file order.
Documents(c) ==
  CASE c = 1 -> <<Doc("CustomResourceDefinition", "a", "strict"),
                   Doc("ConfigMap", "x", "")>>
    [] c = 2 -> <<Doc("CustomResourceDefinition", "a", "accepts"),
                   Doc("CustomResourceDefinition", "b", "rejects")>>
    [] OTHER -> <<Doc("Deployment", "y", ""),
                   Doc("CustomResourceDefinition", "b", "accepts")>>

\* ------------------------------------------------------------- API objects
Absent == [present |-> FALSE, owner |-> "", schema |-> ""]
\* A CRD somebody else installed: no owner label.
Foreign == [present |-> TRUE, owner |-> "", schema |-> "accepts"]

NoCondition == [status |-> "", reason |-> ""]
EmptyStatus ==
  [observedGeneration |-> 0,
   ready |-> NoCondition,
   lastAttemptedRevision |-> NoRev,
   lastAppliedRevision |-> NoRev,
   lastAppliedCRDNames |-> [n \in CRDNames |-> 0],
   breakingChanges |-> <<>>]

\* The spec of a Bootstrap: the populated source sub-fields, version.semver,
\* version.digest, prune, interval, kubeConfig ("" is the in-cluster client),
\* template ("" is nil, "T" a map with an example for every kind),
\* continueOnValidationError and updatePolicy ("", "safe" or "force").
NoSpec ==
  [sources |-> {}, semver |-> NoConstraint, digest |-> NoRev, prune |-> FALSE,
   interval |-> 0, kubeConfig |-> "", template |-> "",
   continueOnValidationError |-> FALSE, updatePolicy |-> ""]

NoObject ==
  [exists |-> FALSE, deleting |-> FALSE, finalizer |-> FALSE, generation |-> 0,
   spec |-> NoSpec, status |-> EmptyStatus]

SourceKinds == {"helm", "configmap", "gitlab", "github", "url"}
SemverKinds == {"helm", "configmap", "gitlab", "github"}

\* The Bootstraps a user creates for the given target clusters, templates
\* and settings of continueOnValidationError.
BootstrapSpecsWith(kubeConfigs, templates, continues) ==
  [sources : {{s} : s \in SemverKinds},
   semver : Constraints,
   digest : {NoRev},
   prune : BOOLEAN,
   interval : {IntervalSeconds},
   kubeConfig : kubeConfigs,
   template : templates,
   continueOnValidationError : continues,
   updatePolicy : {""}]
  \cup
  [sources : {{"url"}},
   semver : {NoConstraint},
   digest : {NoRev, Sha256Hex(1)},
   prune : BOOLEAN,
   interval : {IntervalSeconds},
   kubeConfig : kubeConfigs,
   template : templates,
   continueOnValidationError : continues,
   updatePolicy : {""}]

\* The Bootstraps without a template.
BootstrapSpecs(kubeConfigs) == BootstrapSpecsWith(kubeConfigs, {""}, {FALSE})

VARIABLES
  stored,   \* the Bootstrap objects as the API server stores them
  crds,     \* the CustomResourceDefinitions of each cluster
  src,      \* what the upstream source of each Bootstrap offers
  loc,      \* the in-flight Reconcile of each key: position and locals
  queue,    \* keys the work-queue will hand to Reconcile
  ret,      \* what the last Reconcile of each key returned
  steady,   \* history: the last Reconcile returned no error and nothing changed since
  faults,   \* the number of infrastructure failures injected so far
  hook      \* the webhook server: its channel map, its lock and the calls in flight

vars == <<stored, crds, src, loc, queue, ret, steady, faults, hook>>

\* History of the reconcile in flight: whether it started in a steady state,
\* whether the upstream changed under it, whether it called ApplyAllStaged,
\* the CRDs its teardown listed, the sha-256 the url provider computed in
\* HasUpdate ("" when it computed none), the stage whose error ended it
\* ("" when none did), and whether validateObjects failed and was overruled
\* by continueOnValidationError.
NoHist ==
  [steadyRun |-> FALSE, dirty |-> FALSE, didApply |-> FALSE, listed |-> {},
   sum |-> [form |-> "", major |-> 0, minor |-> 0],
   failed |-> "", overruled |-> FALSE]

IdleLoc ==
  [pc |-> "idle",
   hist |-> NoHist,
   obj |-> NoObject,
   before |-> NoObject,
   revision |-> NoRev,
   file |-> 0,
   objects |-> <<>>,
   applied |-> [n \in CRDNames |-> 0],
   items |-> <<>>,
   err |-> FALSE,
   requeueAfter |-> 0,
   temp |-> FALSE,
   removeDeferred |-> FALSE]

\* ------------------------------------------------------------ source chain
Result(err, update, rev) == [err |-> err, update |-> update, rev |-> rev, panic |-> FALSE]
Panic == [err |-> TRUE, update |-> FALSE, rev |-> NoRev, panic |-> TRUE]

\* Faulty variants of url.Source.HasUpdate: one reports every download as
\* an update, one does not look at spec.version.digest.
URLAlwaysUpdate(obj, s) == Result(FALSE, TRUE, Sha256Hex(s.content))
URLDigestIgnored(obj, s) ==
  IF obj.status.lastAppliedRevision = Sha256Hex(s.content)
  THEN Result(FALSE, FALSE, obj.status.lastAppliedRevision)
  ELSE Result(FALSE, TRUE, Sha256Hex(s.content))

\* url.Source.HasUpdate, the tail of the chain (next == nil).  s is what the
\* download returns at the time of the call.
URLHasUpdate(obj, s) ==
  IF "url" \notin obj.spec.sources
  THEN Result(TRUE, FALSE, NoRev)
  ELSE LET sum == Sha256Hex(s.content)
       IN  IF obj.spec.digest # NoRev
           THEN IF obj.spec.digest = sum
                THEN Result(FALSE, TRUE, obj.spec.digest)
                ELSE Result(FALSE, FALSE, NoRev)
           ELSE IF obj.status.lastAppliedRevision = sum
                THEN Result(FALSE, FALSE, obj.status.lastAppliedRevision)
                ELSE Result(FALSE, TRUE, sum)

\* github.Source.HasUpdate: s.latest is the tag of the latest release.
GitHubHasUpdate(obj, s) ==
  IF "github" \notin obj.spec.sources
  THEN URLHasUpdate(obj, s)
  ELSE LET latestVersion == s.latest
           latestVersionSemver == NewVersion(latestVersion)
           lastAppliedRevisionSemver == NewVersion(obj.status.lastAppliedRevision)
       IN  IF ~latestVersionSemver.ok THEN Result(TRUE, FALSE, NoRev)
           ELSE IF ~NewConstraintOK(obj.spec.semver) THEN Result(TRUE, FALSE, NoRev)
           ELSE IF Check(obj.spec.semver, latestVersionSemver)
                THEN IF obj.status.lastAppliedRevision # NoRev /\ ~lastAppliedRevisionSemver.ok
                     THEN Result(TRUE, FALSE, NoRev)
                     ELSE IF obj.status.lastAppliedRevision # NoRev
                             /\ (VEqual(lastAppliedRevisionSemver, latestVersionSemver)
                                 \/ VGreaterThan(lastAppliedRevisionSemver, latestVersionSemver))
                          THEN Result(FALSE, FALSE, obj.status.lastAppliedRevision)
                          ELSE Result(FALSE, TRUE, latestVersion)
                ELSE Result(FALSE, FALSE, obj.status.lastAppliedRevision)

\* gitlab.Source.HasUpdate: s.latest is the tag of the latest release.
GitLabHasUpdate(obj, s) ==
  IF "gitlab" \notin obj.spec.sources
  THEN GitHubHasUpdate(obj, s)
  ELSE LET latestVersion == s.latest
           latestVersionSemver == NewVersion(latestVersion)
           lastAppliedRevisionSemver == NewVersion(obj.status.lastAppliedRevision)
       IN  IF ~latestVersionSemver.ok THEN Result(TRUE, FALSE, NoRev)
           ELSE IF ~NewConstraintOK(obj.spec.semver) THEN Result(TRUE, FALSE, NoRev)
           ELSE IF Check(obj.spec.semver, latestVersionSemver)
                THEN IF obj.status.lastAppliedRevision # NoRev /\ ~lastAppliedRevisionSemver.ok
                     THEN Result(TRUE, FALSE, NoRev)
                     ELSE IF obj.status.lastAppliedRevision # NoRev
                             /\ (VEqual(lastAppliedRevisionSemver, latestVersionSemver)
                                 \/ VGreaterThan(lastAppliedRevisionSemver, latestVersionSemver))
                          THEN Result(FALSE, FALSE, obj.status.lastAppliedRevision)
                          ELSE Result(FALSE, TRUE, latestVersion)
                ELSE Result(FALSE, FALSE, obj.status.lastAppliedRevision)

\* configmap.Source.HasUpdate: s.latest is the "version" key of the ConfigMap.
ConfigMapHasUpdate(obj, s) ==
  IF "configmap" \notin obj.spec.sources
  THEN GitLabHasUpdate(obj, s)
  ELSE LET latestVersion == s.latest
           latestVersionSemver == NewVersion(latestVersion)
           lastAppliedRevisionSemver == NewVersion(obj.status.lastAppliedRevision)
       IN  IF ~latestVersionSemver.ok THEN Result(TRUE, FALSE, NoRev)
           ELSE IF ~NewConstraintOK(obj.spec.semver) THEN Result(TRUE, FALSE, NoRev)
           ELSE IF Check(obj.spec.semver, latestVersionSemver)
                THEN IF obj.status.lastAppliedRevision # NoRev /\ ~lastAppliedRevisionSemver.ok
                     THEN Result(TRUE, FALSE, NoRev)
                     ELSE IF obj.status.lastAppliedRevision # NoRev
                             /\ (VEqual(lastAppliedRevisionSemver, latestVersionSemver)
                                 \/ VGreaterThan(lastAppliedRevisionSemver, latestVersionSemver))
                          THEN Result(FALSE, FALSE, obj.status.lastAppliedRevision)
                          ELSE Result(FALSE, TRUE, latestVersion)
                ELSE Result(FALSE, FALSE, obj.status.lastAppliedRevision)

\* helm.Source.getLatestVersion: the versions that parse and satisfy the
\* constraint, sorted descending; the first one's original string.  The set
\* of the highest ones is empty when nothing satisfies the constraint.
HelmCandidates(versions, constraint) ==
  {v \in versions : NewVersion(v).ok /\ Check(constraint, NewVersion(v))}

\* Faulty variant of HelmHighest: the candidates are not sorted.
HelmUnsorted(versions, constraint) == HelmCandidates(versions, constraint)

HelmHighest(versions, constraint) ==
  {v \in HelmCandidates(versions, constraint) :
      \A w \in HelmCandidates(versions, constraint) :
          ~VGreaterThan(NewVersion(w), NewVersion(v))}

\* helm.Source.HasUpdate for one outcome of the sort: latestRemoteVersion is
\* semvers[0].Original().
HelmDecide(obj, latestRemoteVersion) ==
  LET latestVersionSemver == NewVersion(latestRemoteVersion)
      lastAppliedRevisionSemver == NewVersion(obj.status.lastAppliedRevision)
  IN  IF ~latestVersionSemver.ok THEN Result(TRUE, FALSE, NoRev)
      ELSE IF Check(obj.spec.semver, latestVersionSemver)
           THEN IF obj.status.lastAppliedRevision # NoRev /\ ~lastAppliedRevisionSemver.ok
                THEN Result(TRUE, FALSE, NoRev)
                ELSE IF obj.status.lastAppliedRevision # NoRev
                        /\ (VEqual(lastAppliedRevisionSemver, latestVersionSemver)
                            \/ VGreaterThan(lastAppliedRevisionSemver, latestVersionSemver))
                     THEN Result(FALSE, FALSE, obj.status.lastAppliedRevision)
                     ELSE Result(FALSE, TRUE, latestRemoteVersion)
           ELSE Result(FALSE, FALSE, obj.status.lastAppliedRevision)

\* The results helm.Source.HasUpdate can return, the head of the chain.
\* sort.Slice is not stable: among equal versions either can come first, so
\* there is one result per highest candidate.  semvers[0] of an empty slice
\* panics.
HelmHasUpdate(obj, s) ==
  IF "helm" \notin obj.spec.sources
  THEN {ConfigMapHasUpdate(obj, s)}
  ELSE IF ~NewConstraintOK(obj.spec.semver) THEN {Result(TRUE, FALSE, NoRev)}
       ELSE IF HelmCandidates(s.versions, obj.spec.semver) = {} THEN {Panic}
       ELSE {HelmDecide(obj, v) : v \in HelmHighest(s.versions, obj.spec.semver)}

\* The manifest a release, a chart version or a ConfigMap version ships.
ContentOf(tag) == ((tag.major + tag.minor) % MaxContent) + 1

Fetched(err, file) == [err |-> err, file |-> file]

\* url.Source.FetchCRD: a second download of the URL; the content is written
\* to crds.yaml as it comes.  ioOK is FALSE when the request fails or the
\* status is not 200.
URLFetchCRD(obj, revision, s, ioOK) ==
  IF "url" \notin obj.spec.sources
  THEN Fetched(TRUE, 0)
  ELSE IF ~ioOK THEN Fetched(TRUE, 0) ELSE Fetched(FALSE, s.content)

\* github.Source.FetchCRD: downloads releases/download/<revision>/<manifest>.
GitHubFetchCRD(obj, revision, s, ioOK) ==
  IF "github" \notin obj.spec.sources
  THEN URLFetchCRD(obj, revision, s, ioOK)
  ELSE IF ~ioOK THEN Fetched(TRUE, 0) ELSE Fetched(FALSE, ContentOf(revision))

\* gitlab.Source.FetchCRD: the asset link named manifest of release <revision>.
GitLabFetchCRD(obj, revision, s, ioOK) ==
  IF "gitlab" \notin obj.spec.sources
  THEN GitHubFetchCRD(obj, revision, s, ioOK)
  ELSE IF ~ioOK THEN Fetched(TRUE, 0) ELSE Fetched(FALSE, ContentOf(revision))

\* Faulty variant of ConfigMapFetchCRD: the version is not compared.
ConfigMapFetchUnchecked(obj, revision, s, ioOK) ==
  IF "configmap" \notin obj.spec.sources
  THEN GitLabFetchCRD(obj, revision, s, ioOK)
  ELSE IF ~ioOK THEN Fetched(TRUE, 0) ELSE Fetched(FALSE, s.content)

\* configmap.Source.FetchCRD: the ConfigMap is read again; its version must
\* equal, as a string, the revision HasUpdate returned.
ConfigMapFetchCRD(obj, revision, s, ioOK) ==
  IF "configmap" \notin obj.spec.sources
  THEN GitLabFetchCRD(obj, revision, s, ioOK)
  ELSE IF ~ioOK THEN Fetched(TRUE, 0)
       ELSE IF s.latest # revision THEN Fetched(TRUE, 0)
       ELSE Fetched(FALSE, s.content)

\* helm.Source.FetchCRD, the head of the chain: downloads the chart at
\* <revision> and concatenates the files under crds/.
HelmFetchCRD(obj, revision, s, ioOK) ==
  IF "helm" \notin obj.spec.sources
  THEN ConfigMapFetchCRD(obj, revision, s, ioOK)
  ELSE IF ~ioOK \/ revision \notin s.versions THEN Fetched(TRUE, 0)
       ELSE Fetched(FALSE, ContentOf(revision))

\* Faulty variant of FetchCRDHandledBy: the URL provider is asked first.
FetchURLFirst(spec) ==
  IF "url" \in spec.sources THEN "url"
  ELSE IF "helm" \in spec.sources THEN "helm"
  ELSE IF "configmap" \in spec.sources THEN "configmap"
  ELSE IF "gitlab" \in spec.sources THEN "gitlab"
  ELSE IF "github" \in spec.sources THEN "github"
  ELSE ""

\* The provider whose HasUpdate does not delegate, following the nil checks
\* of the HasUpdate functions from the head of the chain; "" when the tail
\* returns its error.
HasUpdateHandledBy(spec) ==
  IF "helm" \in spec.sources THEN "helm"
  ELSE IF "configmap" \in spec.sources THEN "configmap"
  ELSE IF "gitlab" \in spec.sources THEN "gitlab"
  ELSE IF "github" \in spec.sources THEN "github"
  ELSE IF "url" \in spec.sources THEN "url"
  ELSE ""

\* The same for the FetchCRD functions.
FetchCRDHandledBy(spec) ==
  IF "helm" \in spec.sources THEN "helm"
  ELSE IF "configmap" \in spec.sources THEN "configmap"
  ELSE IF "gitlab" \in spec.sources THEN "gitlab"
  ELSE IF "github" \in spec.sources THEN "github"
  ELSE IF "url" \in spec.sources THEN "url"
  ELSE ""

\* The chain built in main: helm -> configmap -> gitlab -> github -> url.
ChainOrder == <<"helm", "configmap", "gitlab", "github", "url">>

\* The provider that handles a Bootstrap: the first of the chain whose
\* sub-field is populated ("" when none is).
Handler(spec) ==
  IF \E i \in 1..Len(ChainOrder) : ChainOrder[i] \in spec.sources
  THEN ChainOrder[CHOOSE i \in 1..Len(ChainOrder) :
                    /\ ChainOrder[i] \in spec.sources
                    /\ \A j \in 1..(i - 1) : ChainOrder[j] \notin spec.sources]
  ELSE ""

\* ---------------------------------------------------------------- upstream
\* What the upstream of a provider can offer: the "version" key of the
\* ConfigMap or the latest release tag (latest), the versions of the chart
\* (versions), and the manifest content served (content).
Upstreams(kind) ==
  IF kind = "helm"
  THEN {[latest |-> NoRev, versions |-> vs, content |-> 1] :
          vs \in {ws \in SUBSET ChartTags : Cardinality(ws) <= MaxChartVersions}}
  ELSE IF kind = "url" \/ kind = ""
  THEN [latest : {NoRev}, versions : {{}}, content : Contents]
  ELSE {[latest |-> t, versions |-> {}, content |-> ContentOf(t)] : t \in TagStrs}

\* conditions.MarkTrue / conditions.MarkFalse on the Ready condition.
\* Faulty variant of MarkTrue: the condition is left as it was.
MarkTrueOmitted(obj, reason) == obj
MarkTrue(obj, reason) ==
  [obj EXCEPT !.status.ready = [status |-> "True", reason |-> reason]]
\* Faulty variant of MarkFalse: the condition is left as it was.
MarkOmitted(obj, reason) == obj
MarkFalse(obj, reason) ==
  [obj EXCEPT !.status.ready = [status |-> "False", reason |-> reason]]

\* What the last Reconcile returned (none while one is in flight), the path it
\* took ("gone", "normal", "delete"), and whether it left its temp directory.
\* err is the joined error; primary tells whether Reconcile's own return
\* value was an error, patched whether the deferred patch succeeded.
\* ----------------------------------------------------------- webhook server
\* The channels the server can make, 1..MaxChannels; 0 is no channel.
NoChannel == 0
NoChan == [made |-> FALSE, len |-> 0, closed |-> FALSE]
\* The goroutines that call the server: HTTP handlers and whoever registers.
Callers == {"c1", "c2", "c3"}
NoCall == [op |-> "", pc |-> "idle", ch |-> NoChannel]
\* No Reconcile of the webhook-enabled controller in flight; via is how the
\* last one left its select.
NoWait == [pc |-> "idle", via |-> ""]

\* webhook.NewServer and a reconciler without a trigger channel: triggers is
\* s.triggers[key] for the one key, chans the channels made, writer and
\* readers the holders of s.mu, calls the calls in flight, panics the runtime
\* panics so far; webhookTriggers is r.WebhookTriggers[key], interval
\* spec.interval, cancelled whether ctx is done, elapsed whether spec.interval
\* has gone by since the Bootstrap was created or its last Reconcile returned.
NoHook ==
  [triggers |-> NoChannel,
   chans |-> [i \in 1..MaxChannels |-> NoChan],
   writer |-> "",
   readers |-> {},
   calls |-> [p \in Callers |-> NoCall],
   panics |-> {},
   webhookTriggers |-> NoChannel,
   interval |-> 0,
   cancelled |-> FALSE,
   elapsed |-> FALSE,
   rec |-> NoWait]

NoReturn ==
  [err |-> FALSE, requeueAfter |-> 0, path |-> "", tempLeft |-> FALSE,
   primary |-> FALSE, patched |-> FALSE]

\* -------------------------------------------------------------------- Init
\* A Bootstrap was created, for one of the given target clusters; the foreign
\* CRD "c" is installed in the host cluster; nothing was reconciled yet.
InitBudget(specs, used) ==
  /\ stored \in [Keys -> {[exists |-> TRUE, deleting |-> FALSE, finalizer |-> FALSE,
                            generation |-> 1, spec |-> sp, status |-> EmptyStatus] :
                           sp \in specs}]
  /\ crds = [c \in Clusters |->
               [n \in CRDNames |-> IF c = "host" /\ n = "c" THEN Foreign ELSE Absent]]
  /\ src \in [Keys -> UNION {Upstreams(kd) : kd \in SourceKinds}]
  /\ \A k \in Keys : src[k] \in Upstreams(Handler(stored[k].spec))
  /\ loc = [k \in Keys |-> IdleLoc]
  /\ queue = Keys
  /\ ret = [k \in Keys |-> NoReturn]
  /\ steady = [k \in Keys |-> FALSE]
  /\ faults = used
  /\ hook = NoHook

\* No failure has been injected yet.
InitWith(specs) == InitBudget(specs, 0)

InitOn(kubeConfigs) == InitWith(BootstrapSpecs(kubeConfigs))

\* The controller applies to its own cluster.
Init == InitOn({""})
\* The Bootstrap applies to the controller's cluster, or its spec.kubeConfig
\* names the cluster "remote".
InitRemote == InitOn({"", "remote"})
\* The Bootstrap has a spec.template, with either setting of
\* continueOnValidationError.
InitTemplate == InitWith(BootstrapSpecsWith({""}, {"T"}, BOOLEAN))
\* The Bootstrap has a spec.updatePolicy and a GitHub or URL source.
InitPolicy ==
  InitWith({[sp EXCEPT !.updatePolicy = p] :
              sp \in {s \in BootstrapSpecs({""}) : s.sources \in {{"github"}, {"url"}}},
              p \in {"safe", "force"}})

\* ------------------------------------------------------------- environment
\* The outcomes of a step that can fail in the given ways: "ok", or one of
\* the failures while the budget of injected failures lasts.
Outcomes(failures) == {"ok"} \cup (IF faults < MaxFaults THEN failures ELSE {})
Inject(outcome) == faults' = IF outcome = "ok" THEN faults ELSE faults + 1

\* What the API server keeps of an object it has removed.
Gone(o) ==
  [o EXCEPT !.exists = FALSE, !.deleting = FALSE, !.finalizer = FALSE,
            !.status = EmptyStatus]

\* The user deletes the Bootstrap: with a finalizer the object stays, marked
\* with a deletionTimestamp; without one the API server removes it at once.
\* A reconcile reads the stored object in Get and in the deferred patch only,
\* so a delete that arrives anywhere between the two is the delete right
\* before the patch.
UserDelete(k) ==
  /\ stored[k].exists /\ ~stored[k].deleting
  /\ loc[k].pc \in {"idle", "patch"}
  /\ stored' = [stored EXCEPT ![k] =
                  IF stored[k].finalizer THEN [@ EXCEPT !.deleting = TRUE] ELSE Gone(@)]
  /\ queue' = queue \cup {k}
  /\ steady' = [steady EXCEPT ![k] = FALSE]
  /\ loc' = [loc EXCEPT ![k].hist.steadyRun = FALSE, ![k].hist.dirty = TRUE]
  /\ UNCHANGED <<crds, src, ret, faults, hook>>

\* The upstream changes: a new ConfigMap version, a new latest release,
\* another list of chart versions (a withdrawal included), other bytes
\* behind the URL.  Only HasUpdate and FetchCRD read the upstream, so a change
\* at any other point of a reconcile is the change right before the next read.
SourceChange(k) ==
  /\ stored[k].exists
  /\ loc[k].pc \in {"idle", "fetch"}
  /\ \E s \in Upstreams(Handler(stored[k].spec)) :
       /\ s # src[k]
       /\ src' = [src EXCEPT ![k] = s]
  /\ steady' = [steady EXCEPT ![k] = FALSE]
  /\ loc' = [loc EXCEPT ![k].hist.steadyRun = FALSE, ![k].hist.dirty = TRUE]
  /\ UNCHANGED <<stored, crds, queue, ret, faults, hook>>

\* --------------------------------------------------------------- Reconcile
\* Every return of Reconcile: the result goes to the work-queue, which
\* requeues on an error (with backoff) or after RequeueAfter.
Return(k, r) ==
  /\ ret' = [ret EXCEPT ![k] = r]
  /\ queue' = IF r.err \/ r.requeueAfter > 0 THEN queue \cup {k} ELSE queue

\* Faulty variant of DeleteEntry: the prune flag is not looked at.
PruneAlways(obj) == "list"

\* Where reconcileDelete starts: with the list of the owned CRDs, or, when
\* prune is not set, with the removal of the finalizer.
DeleteEntry(obj) == IF obj.spec.prune THEN "list" ELSE "unfinalize"

\* Reconcile, up to the deferred patch being set up: Get, the deletion
\* check, NewSerialPatcher, AddFinalizer.
RGet(k) ==
  /\ loc[k].pc = "idle"
  /\ k \in queue
  /\ LET o == stored[k] IN
     /\ (o.exists /\ ~o.deleting) =>
           \A n \in CRDNames : o.status.lastAppliedCRDNames[n] < MaxApplyCount
     /\ IF ~o.exists \/ (o.deleting /\ ~o.finalizer)
        THEN /\ loc' = [loc EXCEPT ![k] = IdleLoc]
             /\ ret' = [ret EXCEPT ![k] = [NoReturn EXCEPT !.path = "gone"]]
             /\ queue' = queue \ {k}
        ELSE /\ queue' = queue \ {k}
             /\ ret' = [ret EXCEPT ![k] = NoReturn]
             /\ loc' = [loc EXCEPT ![k] =
                  IF o.deleting
                  THEN [IdleLoc EXCEPT !.pc = DeleteEntry(o),
                                       !.obj = o, !.before = o]
                  ELSE [IdleLoc EXCEPT !.pc = "hasupdate",
                                       !.obj = [o EXCEPT !.finalizer = TRUE],
                                       !.before = o,
                                       !.hist = [NoHist EXCEPT !.steadyRun = steady[k]]]]
  /\ UNCHANGED <<stored, crds, src, steady, faults, hook>>

\* Faulty variant of Attempted: the revision is not recorded.
AttemptOmitted(obj, rev) == obj

\* obj.Status.LastAttemptedRevision = revision.
Attempted(obj, rev) == [obj EXCEPT !.status.lastAttemptedRevision = rev]

\* r.SourceProvider.HasUpdate and the two early returns after it.
RHasUpdate(k) ==
  /\ loc[k].pc = "hasupdate"
  /\ \E out \in Outcomes({"io"}), r \in HelmHasUpdate(loc[k].obj, src[k]) :
       LET res == IF out = "ok" THEN r ELSE Result(TRUE, FALSE, NoRev)
           l == [loc[k] EXCEPT !.hist.sum =
                   IF out = "ok" /\ Handler(loc[k].obj.spec) = "url"
                   THEN Sha256Hex(src[k].content) ELSE NoRev]
       IN  /\ Inject(out)
           /\ loc' = [loc EXCEPT ![k] =
                IF res.err
                THEN [l EXCEPT !.pc = "patch", !.err = TRUE,
                               !.hist.failed = "hasupdate"]
                ELSE IF ~res.update
                THEN [l EXCEPT !.pc = "patch",
                               !.obj = MarkTrue(l.obj, "Succeeded"),
                               !.requeueAfter = l.obj.spec.interval]
                ELSE [l EXCEPT !.pc = "fetch",
                               !.revision = res.rev,
                               !.obj = Attempted(l.obj, res.rev)]]
  /\ UNCHANGED <<stored, crds, src, queue, ret, steady, hook>>

\* os.MkdirTemp, r.SourceProvider.FetchCRD, and the deferred os.RemoveAll,
\* which is registered only after FetchCRD succeeded.
RFetch(k) ==
  /\ loc[k].pc = "fetch"
  /\ \E out \in Outcomes({"temp", "io"}) :
       LET l == loc[k]
           f == HelmFetchCRD(l.obj, l.revision, src[k], out # "io")
       IN  /\ Inject(out)
           /\ loc' = [loc EXCEPT ![k] =
             IF out = "temp"
             THEN [l EXCEPT !.pc = "patch", !.err = TRUE, !.hist.failed = "temp",
                            !.obj = MarkFalse(l.obj, "TempFolderFailedToCreate")]
             ELSE IF f.err
             THEN [l EXCEPT !.pc = "patch", !.err = TRUE, !.temp = TRUE,
                            !.hist.failed = "fetch",
                            !.obj = MarkFalse(l.obj, "CRDFetchFailed")]
             ELSE [l EXCEPT !.pc = "prepare", !.temp = TRUE, !.removeDeferred = TRUE,
                            !.file = f.file]]
  /\ UNCHANGED <<stored, crds, src, queue, ret, steady, hook>>

\* readObjects: of the documents of the file, those of kind
\* CustomResourceDefinition, in file order.
\* Faulty variant of IsCRD: no kind is filtered out.
AnyKind(d) == TRUE
IsCRD(d) == d.kind = "CustomResourceDefinition"
KeepCRDs(docs) == SelectSeq(docs, IsCRD)
readObjects(file) == KeepCRDs(Documents(file))

\* Faulty variant of SetLabels: the object goes on without the owner label.
LabelsOmitted(o, name) == o

\* o.SetLabels(map[string]string{BootstrapOwnerLabelKey: obj.GetName()}).
SetLabels(o, name) == [o EXCEPT !.owner = name]

\* The counts after the loop applied[o.GetName()]++ over the objects.
Counted(counts, objects) ==
  [n \in CRDNames |->
     counts[n] + Cardinality({i \in 1..Len(objects) : objects[i].name = n})]

\* A Go map that was decoded from the stored status is nil when it has no
\* entry (omitempty).
IsNilMap(counts) == \A n \in CRDNames : counts[n] = 0

\* Faulty variants of the validation: one never finds an error, one ends
\* the reconcile on every validation error.
ValidationSkipped(obj, objects) == FALSE
BlocksAlways(obj, verr) == verr

\* The loop of validateObjects over the objects, in order: "nil" when every
\* schema accepts the example of its kind, "error" at the first schema that
\* rejects it, "panic" at the first version that has no schema ("none"),
\* whose v.Schema is a nil pointer when v.Schema.OpenAPIV3Schema is read.
RECURSIVE ValidateEach(_)
ValidateEach(objects) ==
  IF objects = <<>> THEN "nil"
  ELSE IF Head(objects).schema = "none" THEN "panic"
  ELSE IF Head(objects).schema = "rejects" THEN "error"
  ELSE ValidateEach(Tail(objects))

\* validateObjects: TRUE when it returns an error.  Without a template it
\* returns nil at once; with one, the example of the kind of every object is
\* validated against the schema of every version of the object.
validateObjects(obj, objects) ==
  /\ obj.spec.template # ""
  /\ ValidateEach(objects) = "error"

\* A validation error ends the reconcile unless continueOnValidationError.
ValidationBlocks(obj, verr) == verr /\ ~obj.spec.continueOnValidationError

\* How tight a schema is.
Rank(schema) ==
  CASE schema = "accepts" -> 0
    [] schema = "strict" -> 1
    [] OTHER -> 2

\* A version of a CRD: its name and its schema ("" when the version has no
\* schema or no openAPIV3Schema).
Version(name, schema) == [name |-> name, schema |-> schema]

\* compareSchemas: the breaking changes between two schemas that differ, one
\* here when the new schema is tighter than the old one.
compareSchemas(oldSchema, newSchema) ==
  IF Rank(newSchema) > Rank(oldSchema) THEN <<"tightened">> ELSE <<>>

\* The map newVersions: the schema of every version of the new CRD that has
\* one, by version name (of two versions of one name the later one).
NewVersions(versions) ==
  [n \in {versions[i].name : i \in {j \in 1..Len(versions) : versions[j].schema # ""}} |->
     LET last == CHOOSE i \in 1..Len(versions) :
                   /\ versions[i].name = n /\ versions[i].schema # ""
                   /\ \A j \in (i + 1)..Len(versions) :
                         ~(versions[j].name = n /\ versions[j].schema # "")
     IN  versions[last].schema]

\* Faulty variant of Lookup: the ok of the map read is not looked at.
LookupAlwaysOk(newVersions, name) ==
  [ok |-> TRUE,
   schema |-> IF name \in DOMAIN newVersions THEN newVersions[name] ELSE ""]

\* newSchema, ok := newVersions[oldVer.Name].
Lookup(newVersions, name) ==
  IF name \in DOMAIN newVersions
  THEN [ok |-> TRUE, schema |-> newVersions[name]]
  ELSE [ok |-> FALSE, schema |-> ""]

\* The loop of breaking.DetectBreakingChanges over the versions of the old
\* CRD: a version without a schema is skipped, a version the new CRD has no
\* schema for is reported as removed, deeply equal schemas report nothing,
\* other schemas the breaking changes of their comparison.
RECURSIVE DetectVersions(_, _)
DetectVersions(oldVersions, newVersions) ==
  IF oldVersions = <<>> THEN <<>>
  ELSE LET oldVer == Head(oldVersions)
           found == Lookup(newVersions, oldVer.name)
           changes ==
             IF oldVer.schema = "" THEN <<>>
             ELSE IF ~found.ok THEN <<[version |-> oldVer.name, change |-> "removed"]>>
             ELSE IF oldVer.schema = found.schema THEN <<>>
             ELSE LET cs == compareSchemas(oldVer.schema, found.schema)
                  IN  [i \in 1..Len(cs) |-> [version |-> oldVer.name, change |-> cs[i]]]
       IN  changes \o DetectVersions(Tail(oldVersions), newVersions)

\* breaking.DetectBreakingChanges for the CRDs of a cluster and of a file,
\* which have one version: the change reported is kept as the name of the
\* CRD it is about.
DetectBreakingChanges(old, new) ==
  IF DetectVersions(<<Version("v1", old.schema)>>,
                    NewVersions(<<Version("v1", new.schema)>>)) = <<>>
  THEN <<>>
  ELSE <<new.name>>

\* detectBreakingChanges: for each object, r.Get of the CRD of that name
\* through the client of the controller's own cluster; a CRD not installed is
\* skipped, the changes of the others are appended in object order.
RECURSIVE detectBreakingChanges(_, _)
detectBreakingChanges(cluster, objects) ==
  IF objects = <<>> THEN <<>>
  ELSE LET o == Head(objects)
           changes == IF cluster[o.name].present
                      THEN DetectBreakingChanges(cluster[o.name], o)
                      ELSE <<>>
       IN  changes \o detectBreakingChanges(cluster, Tail(objects))

\* Faulty variant of PolicyBlocks: no policy blocks.
PolicyNeverBlocks(obj, breakingChanges) == FALSE

\* len(breakingChanges) > 0 && obj.Spec.UpdatePolicy == UpdatePolicySafe.
PolicyBlocks(obj, breakingChanges) ==
  Len(breakingChanges) > 0 /\ obj.spec.updatePolicy = "safe"

\* NewResourceManager, readObjects, the labelling loop, the breaking-change
\* check and validateObjects.  applied aliases obj.Status.LastAppliedCRDNames
\* unless that map is nil: the increments are then made in the status the
\* deferred patch writes.
RPrepare(k) ==
  /\ loc[k].pc = "prepare"
  /\ \E out \in Outcomes({"rm", "read"} \cup
                        IF loc[k].obj.spec.updatePolicy # "" THEN {"detect"} ELSE {}) :
       LET l == loc[k]
           objects == readObjects(l.file)
           labelled == [i \in 1..Len(objects) |-> SetLabels(objects[i], GetName(k))]
           applied == Counted(l.obj.status.lastAppliedCRDNames, objects)
           counted == [l EXCEPT !.objects = labelled,
                                !.applied = applied,
                                !.obj.status.lastAppliedCRDNames =
                                   IF IsNilMap(@) THEN @ ELSE applied]
           breakingChanges == detectBreakingChanges(crds["host"], labelled)
           checked == IF l.obj.spec.updatePolicy # ""
                      THEN [counted EXCEPT !.obj.status.breakingChanges = breakingChanges]
                      ELSE counted
           verr == validateObjects(l.obj, labelled)
       IN  /\ Inject(out)
           /\ loc' = [loc EXCEPT ![k] =
                IF out = "rm"
                THEN [l EXCEPT !.pc = "patch", !.err = TRUE, !.hist.failed = "rm",
                               !.obj = MarkFalse(l.obj, "ResourceManagerCreateFailed")]
                ELSE IF out = "read"
                THEN [l EXCEPT !.pc = "patch", !.err = TRUE, !.hist.failed = "read",
                               !.obj = MarkFalse(l.obj, "ReadingObjectsToApplyFailed")]
                ELSE IF out = "detect"
                THEN [counted EXCEPT !.pc = "patch", !.err = TRUE,
                                     !.hist.failed = "detect",
                                     !.obj = MarkFalse(counted.obj,
                                                "BreakingChangeDetectionFailed")]
                ELSE IF l.obj.spec.updatePolicy # "" /\ PolicyBlocks(l.obj, breakingChanges)
                THEN [checked EXCEPT !.pc = "patch", !.err = TRUE,
                                     !.hist.failed = "breaking",
                                     !.obj = MarkFalse(checked.obj, "BreakingChangeDetected")]
                ELSE IF ValidationBlocks(l.obj, verr)
                THEN [checked EXCEPT !.pc = "patch", !.err = TRUE,
                                     !.hist.failed = "validate",
                                     !.obj = MarkFalse(checked.obj, "CRDValidationFailed")]
                ELSE [checked EXCEPT !.pc = "apply", !.hist.overruled = verr]]
  /\ UNCHANGED <<stored, crds, src, queue, ret, steady, hook>>

\* The cluster NewResourceManager binds: the in-cluster client, or the cluster
\* of spec.kubeConfig.
TargetCluster(obj) == IF obj.spec.kubeConfig = "" THEN "host" ELSE obj.spec.kubeConfig

\* The CRDs of a cluster after the first j objects were server-side-applied.
Applied(cluster, objects, j) ==
  [n \in CRDNames |->
     IF \E i \in 1..j : objects[i].name = n
     THEN LET i == CHOOSE i \in 1..j : objects[i].name = n
          IN  [present |-> TRUE, owner |-> objects[i].owner,
               schema |-> objects[i].schema]
     ELSE cluster[n]]

\* sm.ApplyAllStaged: all objects are applied, or the call fails after the
\* first j of them.
RApply(k) ==
  /\ loc[k].pc = "apply"
  /\ \E out \in Outcomes({"apply"}),
        j \in 0..Len(loc[k].objects) :
       LET l == loc[k]
           t == TargetCluster(l.obj)
       IN  /\ (out = "ok") = (j = Len(l.objects))
           /\ Inject(out)
           /\ crds' = [crds EXCEPT ![t] = Applied(crds[t], l.objects, j)]
           /\ loc' = [loc EXCEPT ![k] =
                IF j = Len(l.objects)
                THEN [l EXCEPT !.pc = "wait", !.hist.didApply = TRUE]
                ELSE [l EXCEPT !.pc = "patch", !.err = TRUE, !.hist.didApply = TRUE,
                               !.hist.failed = "apply",
                               !.obj = MarkFalse(l.obj, "ApplyingCRDSFailed")]]
  /\ UNCHANGED <<stored, src, queue, ret, steady, hook>>

\* sm.Wait and the success tail of Reconcile.
RWait(k) ==
  /\ loc[k].pc = "wait"
  /\ \E out \in Outcomes({"wait"}) :
       LET l == loc[k]
       IN  /\ Inject(out)
           /\ loc' = [loc EXCEPT ![k] =
             IF out # "ok"
             THEN [l EXCEPT !.pc = "patch", !.err = TRUE, !.hist.failed = "wait",
                            !.obj = MarkFalse(l.obj, "WaitingOnObjectsFailed")]
             ELSE [l EXCEPT !.pc = "patch",
                            !.requeueAfter = l.obj.spec.interval,
                            !.obj = MarkTrue([l.obj EXCEPT
                                       !.status.lastAppliedCRDNames = l.applied,
                                       !.status.lastAppliedRevision = l.revision],
                                     "Succeeded")]]
  /\ UNCHANGED <<stored, crds, src, queue, ret, steady, hook>>

\* Faulty variant of DeferredStatus: observedGeneration is not set.
StatusAsIs(obj) == obj.status

\* The status the deferred function patches:
\* obj.Status.ObservedGeneration = obj.Generation.
DeferredStatus(obj) == [obj.status EXCEPT !.observedGeneration = obj.generation]

\* Faulty variant of Join: the later error replaces the earlier one.
JoinReplaces(err, perr) == IF perr # {} THEN perr ELSE err

\* errors.Join: the errors of both (none when both are nil).
Join(err, perr) == err \cup perr

\* The deferred functions of Reconcile, last registered first: os.RemoveAll
\* of the temp directory, then observedGeneration and patchHelper.Patch.  The
\* patch sends what Reconcile changed since NewSerialPatcher; it fails when
\* the API server does (or has no such object any more), and its error is
\* joined with the error Reconcile returns.
RPatch(k) ==
  /\ loc[k].pc = "patch"
  /\ \E out \in Outcomes({"patch"}) :
       LET l == loc[k]
           ok == out = "ok" /\ stored[k].exists
           status == DeferredStatus(l.obj)
           errs == Join(IF l.err THEN {"primary"} ELSE {},
                        IF ok THEN {} ELSE {"patch"})
           e == errs # {}
       IN  /\ Inject(out)
           /\ stored' = [stored EXCEPT ![k] =
                IF ok
                THEN [@ EXCEPT !.finalizer = IF l.obj.finalizer # l.before.finalizer
                                             THEN l.obj.finalizer ELSE @,
                               !.status = status]
                ELSE @]
           /\ Return(k, [err |-> e, requeueAfter |-> l.requeueAfter,
                         path |-> "normal", tempLeft |-> l.temp /\ ~l.removeDeferred,
                         primary |-> "primary" \in errs, patched |-> ok])
           /\ steady' = [steady EXCEPT ![k] = ~e /\ ~l.hist.dirty]
           /\ loc' = [loc EXCEPT ![k] = IdleLoc]
  /\ UNCHANGED <<crds, src, hook>>

\* reconcileDelete with prune: r.List of the CRDs labelled with the name of
\* the Bootstrap, through the client of the host cluster.
OwnedCRDs(cluster, name) ==
  SelectSeq(NameOrder, LAMBDA n : cluster[n].present /\ cluster[n].owner = name)

RList(k) ==
  /\ loc[k].pc = "list"
  /\ \E out \in Outcomes({"list"}) :
       LET l == loc[k]
           items == OwnedCRDs(crds["host"], GetName(k))
       IN  /\ Inject(out)
           /\ IF out # "ok"
              THEN /\ loc' = [loc EXCEPT ![k] = IdleLoc]
                   /\ Return(k, [NoReturn EXCEPT !.err = TRUE, !.primary = TRUE,
                                                !.path = "delete"])
              ELSE /\ loc' = [loc EXCEPT ![k] =
                     [l EXCEPT !.pc = IF items = <<>> THEN "unfinalize" ELSE "delete",
                               !.items = items,
                               !.hist.listed = {items[i] : i \in 1..Len(items)}]]
                   /\ UNCHANGED <<ret, queue>>
  /\ UNCHANGED <<stored, crds, src, steady, hook>>

\* Faulty variant of DeleteFailed: the error of r.Delete is dropped.
DeleteErrorIgnored(out, present) == FALSE

\* err != nil after r.Delete: the call failed, or the CRD is gone already.
DeleteFailed(out, present) == out # "ok" \/ ~present

\* One round of the loop over crds.Items: r.Delete of the next item; an
\* error ends reconcileDelete.
RDelete(k) ==
  /\ loc[k].pc = "delete"
  /\ \E out \in Outcomes({"delete"}) :
       LET l == loc[k]
           n == Head(l.items)
       IN  /\ Inject(out)
           /\ crds' = IF out = "ok" /\ crds["host"][n].present
                      THEN [crds EXCEPT !["host"][n] = Absent]
                      ELSE crds
           /\ IF DeleteFailed(out, crds["host"][n].present)
              THEN /\ loc' = [loc EXCEPT ![k] = IdleLoc]
                   /\ Return(k, [NoReturn EXCEPT !.err = TRUE, !.primary = TRUE,
                                                !.path = "delete"])
              ELSE /\ loc' = [loc EXCEPT ![k] =
                        [l EXCEPT !.pc = IF Tail(l.items) = <<>> THEN "unfinalize"
                                         ELSE "delete",
                                  !.items = Tail(l.items)]]
                   /\ UNCHANGED <<ret, queue>>
  /\ UNCHANGED <<stored, src, steady, hook>>

\* controllerutil.RemoveFinalizer and patchHelper.Patch, the end of
\* reconcileDelete.  The API server removes a deleted object with its last
\* finalizer.
RUnfinalize(k) ==
  /\ loc[k].pc = "unfinalize"
  /\ \E out \in Outcomes({"patch"}) :
       LET l == loc[k]
           ok == out = "ok" /\ stored[k].exists
       IN  /\ Inject(out)
           /\ stored' = [stored EXCEPT ![k] = IF ok THEN Gone(@) ELSE @]
           /\ Return(k, [NoReturn EXCEPT !.err = ~ok, !.primary = ~ok,
                                         !.patched = ok, !.path = "delete"])
           /\ loc' = [loc EXCEPT ![k] = IdleLoc]
  /\ UNCHANGED <<crds, src, steady, hook>>

Next ==
  \E k \in Keys :
    \/ UserDelete(k)
    \/ SourceChange(k)
    \/ RGet(k)
    \/ RHasUpdate(k)
    \/ RFetch(k)
    \/ RPrepare(k)
    \/ RApply(k)
    \/ RWait(k)
    \/ RPatch(k)
    \/ RList(k)
    \/ RDelete(k)
    \/ RUnfinalize(k)

Spec == Init /\ [][Next]_vars

\* The same controller, for Bootstraps whose spec.kubeConfig may name a
\* remote cluster.
SpecRemote == InitRemote /\ [][Next]_vars

\* The same controller, for Bootstraps with a spec.template.
SpecTemplate == InitTemplate /\ [][Next]_vars

\* The same controller, for Bootstraps with a spec.updatePolicy.
SpecPolicy == InitPolicy /\ [][Next]_vars

\* A newly created Bootstrap with a semver source that offers at least one
\* version satisfying the constraint; no call fails, the source does not
\* change and the Bootstrap is not deleted.
InitLive ==
  /\ InitBudget({sp \in BootstrapSpecs({""}) : Handler(sp) \in SemverKinds}, MaxFaults)
  /\ \A k \in Keys :
       HelmCandidates({src[k].latest} \cup src[k].versions, stored[k].spec.semver) # {}

\* The steps of Reconcile of a Bootstrap that is not being deleted.
Reconcile(k) ==
  \/ RGet(k)
  \/ RHasUpdate(k)
  \/ RFetch(k)
  \/ RPrepare(k)
  \/ RApply(k)
  \/ RWait(k)
  \/ RPatch(k)

NextLive == \E k \in Keys : Reconcile(k)

\* The work queue hands every queued key to a worker, and a Reconcile that
\* has started runs to its return.
SpecLive ==
  InitLive /\ [][NextLive]_vars /\ \A k \in Keys : WF_vars(Reconcile(k))

\* ------------------------------------------------ two Bootstraps of one name
\* Two Bootstraps with the same metadata.name in two namespaces of the host
\* cluster.
SharedKeys == {[ns |-> "ns1", name |-> "app"], [ns |-> "ns2", name |-> "app"]}

\* Both were created with prune=true and a GitHub source, each with its own
\* repository; they apply to the controller's cluster and no call fails.
InitShared ==
  /\ stored \in [SharedKeys ->
        {[exists |-> TRUE, deleting |-> FALSE, finalizer |-> FALSE,
          generation |-> 1, spec |-> sp, status |-> EmptyStatus] :
           sp \in {s \in BootstrapSpecs({""}) :
                     s.sources = {"github"} /\ s.prune /\ s.semver = AtLeast(1, 0)}}]
  /\ crds = [c \in Clusters |->
               [n \in CRDNames |-> IF c = "host" /\ n = "c" THEN Foreign ELSE Absent]]
  /\ src \in [SharedKeys -> Upstreams("github")]
  /\ loc = [k \in SharedKeys |-> IdleLoc]
  /\ queue = SharedKeys
  /\ ret = [k \in SharedKeys |-> NoReturn]
  /\ steady = [k \in SharedKeys |-> FALSE]
  /\ faults = MaxFaults
  /\ hook = NoHook

\* The reconciles of the two, interleaved as the workers of the controller
\* run them, and the user deleting either.
NextShared ==
  \E k \in SharedKeys :
    \/ UserDelete(k)
    \/ Reconcile(k)
    \/ RList(k)
    \/ RDelete(k)
    \/ RUnfinalize(k)

SpecShared == InitShared /\ [][NextShared]_vars

\* ----------------------------------------------------- the webhook server
\* The rest of the controller stands still while the webhook server runs.
controller == <<stored, crds, src, loc, queue, ret, steady, faults>>

\* The server was constructed; the Bootstrap has a fallback interval or none.
InitHook ==
  /\ hook \in {[NoHook EXCEPT !.interval = i] : i \in {0, IntervalSeconds}}
  /\ stored = [k \in Keys |-> NoObject]
  /\ crds = [c \in Clusters |-> [n \in CRDNames |-> Absent]]
  /\ src = [k \in Keys |-> [latest |-> NoRev, versions |-> {}, content |-> 1]]
  /\ loc = [k \in Keys |-> IdleLoc]
  /\ queue = {}
  /\ ret = [k \in Keys |-> NoReturn]
  /\ steady = [k \in Keys |-> FALSE]
  /\ faults = 0

Made == {i \in 1..MaxChannels : hook.chans[i].made}

\* A goroutine calls RegisterBootstrap, UnregisterBootstrap or
\* triggerReconciliation for the key.  The server makes no more than
\* MaxChannels channels.
Call(p) ==
  /\ hook.calls[p].pc = "idle"
  /\ \E op \in {"register", "unregister", "trigger"} :
       /\ op = "register" =>
             Cardinality(Made)
               + Cardinality({q \in Callers : hook.calls[q].op = "register"
                                               /\ hook.calls[q].pc # "idle"})
               < MaxChannels
       /\ hook' = [hook EXCEPT !.calls[p] = [op |-> op, pc |-> "lock", ch |-> NoChannel]]
  /\ UNCHANGED controller

\* s.mu.Lock() of register and unregister, s.mu.RLock() of trigger.
Lock(p) ==
  /\ hook.calls[p].pc = "lock"
  /\ hook.writer = ""
  /\ IF hook.calls[p].op = "trigger"
     THEN hook' = [hook EXCEPT !.readers = @ \cup {p}, !.calls[p].pc = "body"]
     ELSE /\ hook.readers = {}
          /\ hook' = [hook EXCEPT !.writer = p, !.calls[p].pc = "body"]
  /\ UNCHANGED controller

\* RegisterBootstrap under the lock: the channel of the key, or a new
\* channel of capacity 1 stored under the key.
RegisterBootstrap(p) ==
  /\ hook.calls[p].pc = "body" /\ hook.calls[p].op = "register"
  /\ IF hook.triggers # NoChannel
     THEN hook' = [hook EXCEPT !.calls[p].ch = hook.triggers, !.calls[p].pc = "unlock"]
     ELSE LET ch == CHOOSE i \in 1..MaxChannels :
                      ~hook.chans[i].made /\ \A j \in 1..(i - 1) : hook.chans[j].made
          IN  hook' = [hook EXCEPT !.chans[ch].made = TRUE,
                                   !.triggers = ch,
                                   !.calls[p].ch = ch,
                                   !.calls[p].pc = "unlock"]
  /\ UNCHANGED controller

\* Faulty variant of Deleted: the key stays in the map.
DeleteOmitted(triggers) == triggers

\* delete(s.triggers, key).
Deleted(triggers) == NoChannel

\* UnregisterBootstrap under the lock: close(ch), which panics on a closed
\* channel, and delete(s.triggers, key).
UnregisterBootstrap(p) ==
  /\ hook.calls[p].pc = "body" /\ hook.calls[p].op = "unregister"
  /\ IF hook.triggers # NoChannel
     THEN LET ch == hook.triggers
          IN  hook' = [hook EXCEPT
                         !.panics = IF hook.chans[ch].closed
                                    THEN @ \cup {"close of closed channel"} ELSE @,
                         !.chans[ch].closed = TRUE,
                         !.triggers = Deleted(@),
                         !.calls[p].pc = "unlock"]
     ELSE hook' = [hook EXCEPT !.calls[p].pc = "unlock"]
  /\ UNCHANGED controller

\* Faulty variant of TrySend: the signal is put into the channel whether or
\* not one is pending.
SendAlways(chan) == [chan EXCEPT !.len = @ + 1]

\* select { case ch <- struct{}{}: default: } on a channel that is open: the
\* signal is buffered when the one slot is free and dropped when it is not.
TrySend(chan) == IF chan.len < 1 THEN [chan EXCEPT !.len = @ + 1] ELSE chan

\* triggerReconciliation under the read lock: the non-blocking send when the
\* key is registered (a send on a closed channel panics), nothing otherwise.
triggerReconciliation(p) ==
  /\ hook.calls[p].pc = "body" /\ hook.calls[p].op = "trigger"
  /\ IF hook.triggers # NoChannel
     THEN LET ch == hook.triggers
          IN  IF hook.chans[ch].closed
              THEN hook' = [hook EXCEPT !.panics = @ \cup {"send on closed channel"},
                                        !.calls[p].ch = ch,
                                        !.calls[p].pc = "unlock"]
              ELSE hook' = [hook EXCEPT !.chans[ch] = TrySend(@),
                                        !.calls[p].ch = ch,
                                        !.calls[p].pc = "unlock"]
     ELSE hook' = [hook EXCEPT !.calls[p].pc = "unlock"]
  /\ UNCHANGED controller

\* The deferred s.mu.Unlock() / s.mu.RUnlock(), and the return of the call.
Unlock(p) ==
  /\ hook.calls[p].pc = "unlock"
  /\ hook' = [hook EXCEPT !.writer = IF @ = p THEN "" ELSE @,
                          !.readers = @ \ {p},
                          !.calls[p] = [NoCall EXCEPT !.op = hook.calls[p].op,
                                                      !.ch = hook.calls[p].ch]]
  /\ UNCHANGED controller

\* The steps of the call of one goroutine.
Serve(p) ==
  \/ Call(p)
  \/ Lock(p)
  \/ RegisterBootstrap(p)
  \/ UnregisterBootstrap(p)
  \/ triggerReconciliation(p)
  \/ Unlock(p)

NextHook == \E p \in Callers : Serve(p)

\* Every call in flight goes on, and a goroutine waiting for s.mu gets it:
\* the lock is handed to a goroutine that has waited for it.
SpecHook ==
  /\ InitHook /\ [][NextHook]_vars
  /\ \A p \in Callers :
       /\ SF_vars(Lock(p))
       /\ WF_vars(RegisterBootstrap(p) \/ UnregisterBootstrap(p)
                    \/ triggerReconciliation(p) \/ Unlock(p))

\* --------------------------------------- Reconcile with the webhook enabled
\* r.WebhookTriggers[key] is set to a channel the server has made, between
\* two reconciles.
SetWebhookTrigger ==
  /\ hook.rec.pc = "idle"
  /\ \E ch \in Made \ {hook.webhookTriggers} :
       hook' = [hook EXCEPT !.webhookTriggers = ch]
  /\ UNCHANGED controller

\* spec.interval goes by.
Tick ==
  /\ ~hook.elapsed
  /\ hook' = [hook EXCEPT !.elapsed = TRUE]
  /\ UNCHANGED controller

\* The context of the manager is cancelled.
Cancel ==
  /\ ~hook.cancelled
  /\ hook' = [hook EXCEPT !.cancelled = TRUE]
  /\ UNCHANGED controller

\* Reconcile of a Bootstrap with spec.webhook.enabled, up to the lookup of
\* its trigger channel: without one it goes on to HasUpdate.
WebhookGet ==
  /\ hook.rec.pc = "idle"
  /\ hook' = [hook EXCEPT !.rec =
       IF hook.webhookTriggers # NoChannel
       THEN [pc |-> "select", via |-> ""]
       ELSE [pc |-> "hasupdate", via |-> "nochannel"]]
  /\ UNCHANGED controller

\* The select over the trigger channel, ctx.Done() and default: a case that
\* is ready is taken (a receive is ready on a pending signal and on a closed
\* channel); with none ready the default goes on to HasUpdate when
\* spec.interval is set, and returns otherwise.
WebhookSelect ==
  /\ hook.rec.pc = "select"
  /\ LET ch == hook.webhookTriggers
         pending == hook.chans[ch].len > 0
         closed == hook.chans[ch].closed
     IN  \/ /\ pending
            /\ hook' = [hook EXCEPT !.chans[ch].len = @ - 1,
                                    !.rec = [pc |-> "hasupdate", via |-> "signal"]]
         \/ /\ ~pending /\ closed
            /\ hook' = [hook EXCEPT !.rec = [pc |-> "hasupdate", via |-> "closed"]]
         \/ /\ hook.cancelled
            /\ hook' = [hook EXCEPT !.rec = [pc |-> "idle", via |-> "cancelled"],
                                    !.elapsed = FALSE]
         \/ /\ ~pending /\ ~closed /\ ~hook.cancelled
            /\ hook' = [hook EXCEPT
                 !.rec = IF hook.interval > 0
                         THEN [pc |-> "hasupdate", via |-> "fallback"]
                         ELSE [pc |-> "idle", via |-> "skipped"],
                 !.elapsed = IF hook.interval > 0 THEN @ ELSE FALSE]
  /\ UNCHANGED controller

\* r.SourceProvider.HasUpdate is called and Reconcile runs to its return.
WebhookHasUpdate ==
  /\ hook.rec.pc = "hasupdate"
  /\ hook' = [hook EXCEPT !.rec.pc = "idle", !.elapsed = FALSE]
  /\ UNCHANGED controller

\* The reconciler, one goroutine of the webhook server, and time.
NextWait ==
  \/ Serve("c1")
  \/ SetWebhookTrigger
  \/ Tick
  \/ Cancel
  \/ WebhookGet
  \/ WebhookSelect
  \/ WebhookHasUpdate

SpecWait == InitHook /\ [][NextWait]_vars

\* ------------------------------------------------------ functions on their own
\* readObjects with the labelling and the apply that follow it, and
\* helm.Source.HasUpdate, each run once on an input of a wider range than the
\* upstreams above offer.  src is the input, loc the position ("start",
\* "done"), ret the value returned, crds the cluster applied to.
PureDocs ==
  {Doc("CustomResourceDefinition", n, "accepts") : n \in {"a", "b"}}
  \cup {Doc(kd, n, "") : kd \in {"ConfigMap", "Deployment"}, n \in {"a", "b"}}
Manifests == UNION {[1..n -> PureDocs] : n \in 0..MaxDocs}

\* The versions of a chart and the constraints of its Bootstrap.
PureTags ==
  {VerStr("v", 0, 9), VerStr("v", 1, 0), VerStr("v", 1, 5), VerStr("n", 1, 5),
   VerStr("v", 2, 0), BadStr}
PureConstraints == {AtLeast(1, 0), Range(1, 0, 2, 0)}

\* The lastAppliedRevision of a Bootstrap: none, versions, or the digest a
\* URL source left.
PureApplied == {NoRev, VerStr("v", 1, 0), VerStr("v", 1, 5), HexStr(1)}

\* The paths an extracted chart can have, directories and files, in the
\* order filepath.Walk visits them and os.ReadDir lists them (by name); a
\* directory exists when a file below it does.
ChartPaths ==
  << <<"charts">>, <<"charts", "crds">>, <<"charts", "crds", "f4">>,
     <<"crds">>, <<"crds", "f1">>, <<"crds", "f2">>,
     <<"crds", "sub">>, <<"crds", "sub", "f3">>,
     <<"templates">>, <<"templates", "t1">> >>
ChartFiles ==
  {<<"charts", "crds", "f4">>, <<"crds", "f1">>, <<"crds", "f2">>,
   <<"crds", "sub", "f3">>, <<"templates", "t1">>}

IsBelow(p, d) == Len(d) < Len(p) /\ SubSeq(p, 1, Len(d)) = d
\* info.IsDir().
IsDir(files, p) == \E f \in files : IsBelow(f, p)

\* os.ReadDir: the entries of a directory, files and directories, by name.
ReadDir(files, d) ==
  SelectSeq(ChartPaths,
            LAMBDA p : /\ Len(p) = Len(d) + 1 /\ IsBelow(p, d)
                       /\ (p \in files \/ IsDir(files, p)))

\* The loop over the entries of a crds directory: os.ReadFile of the entry,
\* which fails on a directory, then the separator and the content.
RECURSIVE AppendEntries(_, _, _)
AppendEntries(files, entries, out) ==
  IF entries = <<>> THEN out
  ELSE IF IsDir(files, Head(entries)) THEN [out EXCEPT !.err = TRUE]
  ELSE AppendEntries(files, Tail(entries),
                     [out EXCEPT !.parts = Append(@, Head(entries))])

\* The function filepath.Walk calls for every path, first error ends the walk.
RECURSIVE WalkFunc(_, _, _)
WalkFunc(files, paths, out) ==
  IF paths = <<>> THEN out
  ELSE LET p == Head(paths)
       IN  IF IsDir(files, p) /\ p[Len(p)] = "crds"
           THEN LET r == AppendEntries(files, ReadDir(files, p), out)
                IN  IF r.err THEN r ELSE WalkFunc(files, Tail(paths), r)
           ELSE WalkFunc(files, Tail(paths), out)

\* helm.Source.createCrdYaml: the error returned and the files written to
\* crds.yaml, each after one "---" line, in the order written.
createCrdYaml(files) == WalkFunc(files, ChartPaths, [err |-> FALSE, parts |-> <<>>])

\* The spec.versions of a CRD: up to two versions of different names, with
\* or without a schema.
VersionLists ==
  LET vs == {Version(n, sc) : n \in {"v1", "v2"}, sc \in {"", "accepts", "strict"}}
  IN  {<<>>} \cup {<<v>> : v \in vs}
      \cup {p \in {<<v, w>> : v \in vs, w \in vs} : p[1].name # p[2].name}

\* CRDs whose one version has a schema that accepts or rejects the example
\* of the template, or has no schema.
SchemaDocs ==
  {Doc("CustomResourceDefinition", n, sc) :
     n \in {"a", "b"}, sc \in {"accepts", "rejects", "none"}}

PureInputs ==
  [fn : {"readObjects"}, docs : Manifests, sources : {{}}, latest : {NoRev},
   versions : {{}}, semver : {NoConstraint}, last : {NoRev}, files : {{}}, old : {<<>>}, new : {<<>>}]
  \cup
  [fn : {"HasUpdate"}, docs : {<<>>}, sources : {{"helm"}}, latest : {NoRev},
   versions : SUBSET PureTags,
   semver : PureConstraints, last : {NoRev, VerStr("v", 1, 0), VerStr("v", 1, 5)},
   files : {{}}, old : {<<>>}, new : {<<>>}]
  \cup
  {[fn |-> "Decide", docs |-> <<>>, sources |-> {kd},
    latest |-> IF kd = "helm" THEN NoRev ELSE c,
    versions |-> IF kd = "helm" THEN {c} ELSE {},
    semver |-> cs, last |-> a, files |-> {}, old |-> <<>>, new |-> <<>>] :
     kd \in SemverKinds, c \in PureTags, cs \in PureConstraints, a \in PureApplied}
  \cup
  [fn : {"Dispatch"}, docs : {<<>>}, sources : SUBSET SourceKinds,
   latest : {VerStr("v", 1, 0), VerStr("v", 2, 0)}, versions : {{VerStr("v", 1, 5)}},
   semver : {AtLeast(1, 0)}, last : {NoRev}, files : {{}}, old : {<<>>}, new : {<<>>}]
  \cup
  [fn : {"validateObjects"}, docs : UNION {[1..n -> SchemaDocs] : n \in 0..2},
   sources : {{}}, latest : {NoRev}, versions : {{}}, semver : {NoConstraint},
   last : {NoRev}, files : {{}}, old : {<<>>}, new : {<<>>}]
  \cup
  [fn : {"createCrdYaml"}, docs : {<<>>}, sources : {{}}, latest : {NoRev},
   versions : {{}}, semver : {NoConstraint}, last : {NoRev},
   files : SUBSET ChartFiles, old : {<<>>}, new : {<<>>}]
  \cup
  [fn : {"DetectBreakingChanges"}, docs : {<<>>}, sources : {{}}, latest : {NoRev},
   versions : {{}}, semver : {NoConstraint}, last : {NoRev}, files : {{}},
   old : VersionLists, new : VersionLists]

NoOutput ==
  [objects |-> <<>>, result |-> Result(FALSE, FALSE, NoRev),
   hasUpdateBy |-> "", fetch |-> Fetched(FALSE, 0), fetchBy |-> "",
   validation |-> "", bundle |-> [err |-> FALSE, parts |-> <<>>],
   breaking |-> <<>>]

InitPure ==
  /\ src \in PureInputs
  /\ loc = "start"
  /\ ret = NoOutput
  /\ crds = [c \in Clusters |-> [n \in CRDNames |-> Absent]]
  /\ stored = [k \in Keys |-> NoObject]
  /\ queue = {}
  /\ steady = [k \in Keys |-> FALSE]
  /\ faults = 0
  /\ hook = NoHook

\* readObjects on the documents of a file, the labelling loop of Reconcile
\* and ApplyAllStaged, for the Bootstrap k.
RunReadObjects(k) ==
  /\ loc = "start" /\ src.fn = "readObjects"
  /\ LET objects == KeepCRDs(src.docs)
         labelled == [i \in 1..Len(objects) |-> SetLabels(objects[i], GetName(k))]
     IN  /\ ret' = [ret EXCEPT !.objects = labelled]
         /\ crds' = [crds EXCEPT !["host"] = Applied(@, labelled, Len(labelled))]
  /\ loc' = "done"
  /\ UNCHANGED <<stored, src, queue, steady, faults, hook>>

\* helm.Source.HasUpdate of a Bootstrap with a helm source, the given
\* constraint and lastAppliedRevision, over the given chart versions.
RunHelmHasUpdate ==
  /\ loc = "start" /\ src.fn = "HasUpdate"
  /\ LET obj == [NoObject EXCEPT !.exists = TRUE,
                                 !.spec.sources = {"helm"},
                                 !.spec.semver = src.semver,
                                 !.status.lastAppliedRevision = src.last]
         s == [latest |-> NoRev, versions |-> src.versions, content |-> 1]
     IN  \E r \in HelmHasUpdate(obj, s) : ret' = [ret EXCEPT !.result = r]
  /\ loc' = "done"
  /\ UNCHANGED <<stored, crds, src, queue, steady, faults, hook>>

\* HasUpdate of the chain for a Bootstrap with one semver source whose
\* upstream offers the one candidate of the input.
RunSemverHasUpdate ==
  /\ loc = "start" /\ src.fn = "Decide"
  /\ LET obj == [NoObject EXCEPT !.exists = TRUE,
                                 !.spec.sources = src.sources,
                                 !.spec.semver = src.semver,
                                 !.status.lastAppliedRevision = src.last]
         s == [latest |-> src.latest, versions |-> src.versions, content |-> 1]
     IN  \E r \in HelmHasUpdate(obj, s) : ret' = [ret EXCEPT !.result = r]
  /\ loc' = "done"
  /\ UNCHANGED <<stored, crds, src, queue, steady, faults, hook>>

\* HasUpdate and then FetchCRD of the chain, as Reconcile calls them, for a
\* Bootstrap with any set of source sub-fields populated.
RunChain ==
  /\ loc = "start" /\ src.fn = "Dispatch"
  /\ LET obj == [NoObject EXCEPT !.exists = TRUE,
                                 !.spec.sources = src.sources,
                                 !.spec.semver = src.semver,
                                 !.status.lastAppliedRevision = src.last]
         s == [latest |-> src.latest, versions |-> src.versions, content |-> 1]
     IN  \E r \in HelmHasUpdate(obj, s) :
           ret' = [ret EXCEPT !.result = r,
                              !.hasUpdateBy = HasUpdateHandledBy(obj.spec),
                              !.fetch = HelmFetchCRD(obj, r.rev, s, TRUE),
                              !.fetchBy = FetchCRDHandledBy(obj.spec)]
  /\ loc' = "done"
  /\ UNCHANGED <<stored, crds, src, queue, steady, faults, hook>>

\* validateObjects of a Bootstrap with a spec.template on parsed CRDs: it
\* returns nil or an error, or panics.
RunValidateObjects ==
  /\ loc = "start" /\ src.fn = "validateObjects"
  /\ LET obj == [NoObject EXCEPT !.exists = TRUE, !.spec.template = "T"]
     IN  ret' = [ret EXCEPT !.validation =
                   IF ValidateEach(src.docs) = "panic" THEN "panic"
                   ELSE IF validateObjects(obj, src.docs) THEN "error" ELSE "nil"]
  /\ loc' = "done"
  /\ UNCHANGED <<stored, crds, src, queue, steady, faults, hook>>

\* createCrdYaml on the extracted chart of the input.
RunCreateCrdYaml ==
  /\ loc = "start" /\ src.fn = "createCrdYaml"
  /\ ret' = [ret EXCEPT !.bundle = createCrdYaml(src.files)]
  /\ loc' = "done"
  /\ UNCHANGED <<stored, crds, src, queue, steady, faults, hook>>

\* breaking.DetectBreakingChanges on the installed CRD and the incoming CRD
\* of the input.
RunDetectBreakingChanges ==
  /\ loc = "start" /\ src.fn = "DetectBreakingChanges"
  /\ ret' = [ret EXCEPT !.breaking = DetectVersions(src.old, NewVersions(src.new))]
  /\ loc' = "done"
  /\ UNCHANGED <<stored, crds, src, queue, steady, faults, hook>>

NextPure ==
  \/ \E k \in Keys : RunReadObjects(k)
  \/ RunHelmHasUpdate
  \/ RunSemverHasUpdate
  \/ RunChain
  \/ RunValidateObjects
  \/ RunCreateCrdYaml
  \/ RunDetectBreakingChanges

SpecPure == InitPure /\ [][NextPure]_vars

\* ================================================================== claims
SemverDriven(k) == Handler(stored[k].spec) \in SemverKinds
URLDriven(k) == Handler(stored[k].spec) = "url"
Pinned(k) == stored[k].spec.digest # NoRev

\* The CRD of a cluster entry is installed and carries the owner label name.
OwnedEntry(e, name) == e.present /\ e.owner = name

\* a is lower than b in semver order.
Lower(a, b) == a.major < b.major \/ (a.major = b.major /\ a.minor < b.minor)

\* C1  Forward-only: for a semver-driven Bootstrap no step, whatever the source
\* offered and withdrew before it, changes status.lastAppliedRevision from a
\* semver value to a lower semver value.
C1_ForwardOnly ==
  [][\A k \in Keys :
       LET old == stored[k].status.lastAppliedRevision
           new == stored'[k].status.lastAppliedRevision
       IN  (SemverDriven(k) /\ NewVersion(old).ok /\ NewVersion(new).ok)
             => ~Lower(NewVersion(new), NewVersion(old))]_vars

\* C1 witness: v1.1 was applied, the source now offers only the lower v1.0,
\* and a reconcile that saw this has returned without error.
C1_Witness ==
  \E k \in Keys :
    /\ SemverDriven(k)
    /\ stored[k].status.lastAppliedRevision = VerStr("v", 1, 1)
    /\ src[k].latest = VerStr("v", 1, 0) \/ src[k].versions = {VerStr("v", 1, 0)}
    /\ steady[k]
    /\ ret[k].path = "normal" /\ ~ret[k].err

\* C2  Every object Reconcile hands to server-side apply is a
\* CustomResourceDefinition labelled delivery.crd-bootstrap.owned = the name of
\* the Bootstrap, and once ApplyAllStaged has succeeded every one of them is
\* in the target cluster with that label.
C2_OwnerLabel ==
  \A k \in Keys :
    LET l == loc[k] IN
    /\ l.pc \in {"apply", "wait"} =>
          \A i \in 1..Len(l.objects) :
             IsCRD(l.objects[i]) /\ l.objects[i].owner = GetName(k)
    /\ l.pc = "wait" =>
          \A i \in 1..Len(l.objects) :
             OwnedEntry(crds[TargetCluster(l.obj)][l.objects[i].name], GetName(k))

\* C2 witness: ApplyAllStaged has applied two CRDs.
C2_Witness ==
  \E k \in Keys :
    /\ loc[k].pc = "wait"
    /\ Len(loc[k].objects) = 2
    /\ crds["host"]["a"].owner = GetName(k) /\ crds["host"]["b"].owner = GetName(k)

\* The CRDs, in any cluster, that carry the owner label of k.
Owned(k) ==
  {<<c, n>> \in Clusters \X CRDNames :
      crds[c][n].present /\ crds[c][n].owner = GetName(k)}

\* The teardown of k has removed the finalizer, and the Bootstrap with it.
TornDown(k) == ret[k].path = "delete" /\ ~ret[k].err /\ ~stored[k].exists

\* C3  Prune deletes exactly the owned CRDs: once the teardown of a Bootstrap
\* with prune=true has removed the finalizer, no CRD carries its owner label,
\* and the CRD "c", which has no owner label, is still there.
C3_PruneDeletesOwned ==
  \A k \in Keys :
    /\ (TornDown(k) /\ stored[k].spec.prune) => Owned(k) = {}
    /\ crds["host"]["c"] = Foreign

C5_FinalizerAfterPrune ==
  \A k \in Keys :
    /\ (loc[k].pc = "unfinalize" /\ stored[k].spec.prune) =>
          /\ stored[k].exists /\ stored[k].finalizer
          /\ \A n \in loc[k].hist.listed : ~crds["host"][n].present
    /\ (ret[k].path = "delete" /\ ret[k].err) =>
          /\ stored[k].exists /\ stored[k].deleting /\ stored[k].finalizer
          /\ k \in queue

\* C5 witness: a delete of the teardown failed: Reconcile returned an error
\* and an owned CRD is still there.
C5_Witness ==
  \E k \in Keys :
    /\ stored[k].spec.prune /\ stored[k].deleting
    /\ ret[k].path = "delete" /\ ret[k].err
    /\ Owned(k) # {}
    /\ k \in queue

\* C6  Every CRD a Bootstrap with prune=true applied is deleted in the end:
\* when the Bootstrap is gone and no reconcile of it is in flight or queued,
\* no CRD carries its owner label.
C6_AppliedCRDsDeleted ==
  \A k \in Keys :
    (stored[k].spec.prune /\ ~stored[k].exists /\ loc[k].pc = "idle" /\ k \notin queue)
      => Owned(k) = {}

\* The status Reconcile is about to patch keeps the three revision fields of
\* the status it read.
KeepsRevisions(l) ==
  /\ l.obj.status.lastAppliedRevision = l.before.status.lastAppliedRevision
  /\ l.obj.status.lastAttemptedRevision = l.before.status.lastAttemptedRevision
  /\ l.obj.status.ready = l.before.status.ready
KeepsCounts(l) ==
  l.obj.status.lastAppliedCRDNames = l.before.status.lastAppliedCRDNames

\* A reconcile that started steady (the one before it returned no error and
\* neither the source nor the Bootstrap changed since) has returned, without
\* error, and stands before its deferred patch.
SteadyRerun(k) == loc[k].pc = "patch" /\ loc[k].hist.steadyRun /\ ~loc[k].err

\* The url source serves the content of the pinned digest.
ServesPinned(k) ==
  URLDriven(k) /\ Pinned(k) /\ Sha256Hex(src[k].content) = stored[k].spec.digest

\* C7, as stated: a rerun on a steady source applies nothing and changes no
\* status field, for every source kind and version setting.
C7_Idempotent ==
  \A k \in Keys :
    SteadyRerun(k) =>
      ~loc[k].hist.didApply /\ KeepsRevisions(loc[k]) /\ KeepsCounts(loc[k])

\* C7, amended: a rerun on a steady source changes neither
\* lastAppliedRevision, lastAttemptedRevision nor the Ready condition; it
\* applies nothing and keeps lastAppliedCRDNames for a semver source, a URL
\* without digest and a URL whose content does not match the pinned digest;
\* for a URL that serves the pinned digest it applies again and increments
\* the count of every CRD of the file.
C7_IdempotentUnlessPinned ==
  \A k \in Keys :
    SteadyRerun(k) =>
      /\ KeepsRevisions(loc[k])
      /\ IF ServesPinned(k)
         THEN /\ loc[k].hist.didApply
              /\ loc[k].obj.status.lastAppliedCRDNames =
                   Counted(loc[k].before.status.lastAppliedCRDNames,
                           readObjects(src[k].content))
         ELSE ~loc[k].hist.didApply /\ KeepsCounts(loc[k])

\* C7 witness: a steady rerun with a URL serving the pinned digest has
\* applied CRD "a" a second time.
C7_Witness ==
  \E k \in Keys :
    /\ SteadyRerun(k) /\ ServesPinned(k)
    /\ loc[k].hist.didApply
    /\ loc[k].before.status.lastAppliedCRDNames["a"] = 1
    /\ loc[k].obj.status.lastAppliedCRDNames["a"] = 2

\* C8  With a URL source and a pinned digest, the content a reconcile has
\* handed to server-side apply has the pinned sha-256.
C8_AppliedMatchesDigest ==
  \A k \in Keys :
    (URLDriven(k) /\ Pinned(k) /\ loc[k].hist.didApply)
      => Sha256Hex(loc[k].file) = stored[k].spec.digest

\* C9  URL without digest: a reconcile goes on to fetch and apply iff the
\* sha-256 HasUpdate computed of its download differs from
\* status.lastAppliedRevision, the revision is then that sha-256, and a
\* reconcile that returns without error leaves lastAppliedRevision at that
\* sha-256, having applied iff the two differed.
C9_RollingDigest ==
  \A k \in Keys :
    LET l == loc[k]
        changed == l.hist.sum # l.before.status.lastAppliedRevision
    IN  (URLDriven(k) /\ ~Pinned(k) /\ l.hist.sum # NoRev) =>
          /\ (l.revision # NoRev) <=> changed
          /\ (l.revision # NoRev) => l.revision = l.hist.sum
          /\ (l.pc \in {"fetch", "prepare", "apply", "wait"} \/ l.hist.didApply) => changed
          /\ (l.pc = "patch" /\ ~l.err) =>
                /\ l.obj.status.lastAppliedRevision = l.hist.sum
                /\ l.hist.didApply <=> changed
          /\ (l.pc = "patch" /\ l.err) =>
                l.obj.status.lastAppliedRevision = l.before.status.lastAppliedRevision

\* C9 witness: content 1 was applied by an earlier reconcile; the reconcile
\* in flight downloaded content 2, applied it, and is about to write its
\* sha-256 as lastAppliedRevision.
C9_Witness ==
  \E k \in Keys :
    /\ URLDriven(k) /\ ~Pinned(k)
    /\ stored[k].status.lastAppliedRevision = Sha256Hex(1)
    /\ loc[k].pc = "patch" /\ ~loc[k].err
    /\ loc[k].hist.sum = Sha256Hex(2) /\ loc[k].hist.didApply
    /\ loc[k].obj.status.lastAppliedRevision = Sha256Hex(2)
    /\ loc[k].obj.status.lastAppliedCRDNames["a"] = 2

\* C10  URL with a pinned digest and a download of another sha-256:
\* Reconcile returns no error and RequeueAfter = spec.interval, has applied
\* nothing, and the status it patches keeps lastAppliedRevision,
\* lastAttemptedRevision and lastAppliedCRDNames.
C10_DigestMismatch ==
  \A k \in Keys :
    LET l == loc[k] IN
    (URLDriven(k) /\ Pinned(k) /\ l.hist.sum \notin {NoRev, stored[k].spec.digest}) =>
       /\ l.pc = "patch"
       /\ ~l.err /\ l.requeueAfter = stored[k].spec.interval
       /\ ~l.hist.didApply /\ l.objects = <<>>
       /\ l.obj.status.lastAppliedRevision = l.before.status.lastAppliedRevision
       /\ l.obj.status.lastAttemptedRevision = l.before.status.lastAttemptedRevision
       /\ KeepsCounts(l)

\* C10 witness: the pinned content was applied once, the URL now serves other
\* content, and the reconcile that downloaded it has returned.
C10_Witness ==
  \E k \in Keys :
    /\ URLDriven(k) /\ Pinned(k)
    /\ loc[k].pc = "patch"
    /\ loc[k].hist.sum = Sha256Hex(2)
    /\ stored[k].status.lastAppliedRevision = stored[k].spec.digest
    /\ loc[k].obj.status.lastAppliedRevision = stored[k].spec.digest

\* The step in which the deferred patch of a reconcile of k writes the status.
StatusWritten(k) ==
  /\ loc[k].pc = "patch" /\ loc'[k].pc = "idle"
  /\ ret'[k].path = "normal" /\ ret'[k].patched

\* The stages of Reconcile after HasUpdate that can fail.
LaterStages == {"temp", "fetch", "rm", "read", "validate", "apply", "wait"}

\* C11: in a reconcile where HasUpdate reported an update with revision r,
\* the status written at the end has lastAttemptedRevision = r, whether the
\* reconcile succeeded or failed in fetch, parse, validation, apply or wait;
\* lastAppliedRevision is r when apply and wait both succeeded and is the
\* value stored before on every failing path.
C11_AttemptedAndApplied ==
  [][\A k \in Keys :
       (StatusWritten(k) /\ loc[k].revision # NoRev) =>
          /\ stored'[k].status.lastAttemptedRevision = loc[k].revision
          /\ loc[k].hist.failed \in LaterStages \cup {""}
          /\ (loc[k].hist.failed = "") =>
                stored'[k].status.lastAppliedRevision = loc[k].revision
          /\ (loc[k].hist.failed \in LaterStages) =>
                stored'[k].status.lastAppliedRevision =
                   stored[k].status.lastAppliedRevision]_vars

\* C11 witness: a reconcile that applied revision v1.1 and failed in wait has
\* written its status over one that had applied v1.0.
C11_Witness ==
  \E k \in Keys :
    /\ loc[k].pc = "idle"
    /\ ret[k].path = "normal" /\ ret[k].patched /\ ret[k].primary
    /\ stored[k].status.ready = [status |-> "False", reason |-> "WaitingOnObjectsFailed"]
    /\ stored[k].status.lastAttemptedRevision = VerStr("v", 1, 1)
    /\ stored[k].status.lastAppliedRevision = VerStr("v", 1, 0)

\* C12: from the moment a reconcile has server-side-applied CRDs of revision
\* r, the stored status of the Bootstrap shows r as lastAttemptedRevision, so
\* that a controller that stops at that moment leaves r on record.
C12_AttemptPersistedBeforeApply ==
  \A k \in Keys :
    (loc[k].hist.didApply /\ stored[k].exists) =>
       stored[k].status.lastAttemptedRevision = loc[k].revision

\* The last Reconcile of k was of a Bootstrap not being deleted, has returned,
\* and its deferred patch succeeded.
WroteStatus(k) ==
  /\ loc[k].pc = "idle" /\ stored[k].exists
  /\ ret[k].path = "normal" /\ ret[k].patched

\* C13: after every Reconcile of a Bootstrap that is not being deleted whose
\* deferred patch succeeded, whether it ended in success, in no update or in
\* an error, the stored status.observedGeneration equals metadata.generation.
C13_ObservedGeneration ==
  \A k \in Keys :
    WroteStatus(k) =>
       stored[k].status.observedGeneration = stored[k].generation

\* C13 witness: a reconcile that ended in an error of FetchCRD has written
\* its status, observedGeneration included.
C13_Witness ==
  \E k \in Keys :
    /\ WroteStatus(k) /\ ret[k].primary
    /\ stored[k].status.ready.reason = "CRDFetchFailed"
    /\ stored[k].status.observedGeneration = stored[k].generation
    /\ stored[k].generation > EmptyStatus.observedGeneration

\* C14: when Reconcile of a Bootstrap that is not being deleted returned an
\* error of its own (an error of HasUpdate included) and wrote the status with
\* the current observedGeneration, the written Ready condition is False;
\* Ready=True is only left in place by a reconcile that returned no error.
C14_ReadyReflectsOutcome ==
  \A k \in Keys :
    (WroteStatus(k) /\ ret[k].primary) =>
       stored[k].status.ready.status = "False"

\* The reason each failing stage of Reconcile is to publish.
StageReason ==
  [s \in {"temp", "fetch", "rm", "read", "apply", "wait"} |->
     CASE s = "temp"  -> "TempFolderFailedToCreate"
       [] s = "fetch" -> "CRDFetchFailed"
       [] s = "rm"    -> "ResourceManagerCreateFailed"
       [] s = "read"  -> "ReadingObjectsToApplyFailed"
       [] s = "apply" -> "ApplyingCRDSFailed"
       [] s = "wait"  -> "WaitingOnObjectsFailed"]

\* C15: when temp-dir creation, FetchCRD, resource-manager construction,
\* manifest parsing, server-side apply or wait fails, Reconcile goes straight
\* to its deferred functions with an error and Ready=False with the reason of
\* that stage, no later stage runs, and the status written and the value
\* returned are that condition and an error.
C15_StageReasons ==
  [][\A k \in Keys :
       /\ (loc[k].hist.failed = "" /\ loc'[k].hist.failed \in DOMAIN StageReason) =>
             /\ loc'[k].pc = "patch" /\ loc'[k].err
             /\ loc'[k].obj.status.ready =
                  [status |-> "False", reason |-> StageReason[loc'[k].hist.failed]]
       /\ (loc[k].pc = "patch" /\ loc[k].hist.failed \in DOMAIN StageReason) =>
             /\ loc'[k].pc \in {"patch", "idle"}
             /\ loc'[k].pc = "idle" => ret'[k].err /\ ret'[k].primary
             /\ StatusWritten(k) =>
                  stored'[k].status.ready =
                    [status |-> "False", reason |-> StageReason[loc[k].hist.failed]]]_vars

\* C15 witness: a reconcile whose manifest could not be parsed has returned
\* an error and written Ready=False with ReadingObjectsToApplyFailed.
C15_Witness ==
  \E k \in Keys :
    /\ WroteStatus(k) /\ ret[k].primary /\ ret[k].err
    /\ stored[k].status.ready =
         [status |-> "False", reason |-> "ReadingObjectsToApplyFailed"]
    /\ stored[k].status.lastAppliedRevision = NoRev

\* The template of the Bootstrap in reconcile state l has an example that a
\* CRD of the fetched file rejects.
FailsTemplate(l) ==
  /\ l.obj.spec.template # ""
  /\ \E i \in 1..Len(Documents(l.file)) :
       /\ Documents(l.file)[i].kind = "CustomResourceDefinition"
       /\ Documents(l.file)[i].schema = "rejects"

\* The step of k that parses and validates the fetched file without a
\* failure of resource-manager construction or of parsing.
Validated(k) ==
  /\ loc[k].pc = "prepare" /\ loc'[k].pc # "prepare"
  /\ loc'[k].hist.failed \notin {"rm", "read"}

\* C16: with spec.template set, an example failing the schema of its CRD and
\* continueOnValidationError false, the reconcile ends at the validation with
\* Ready=False/CRDValidationFailed, has applied no CRD, and the status it
\* writes has that condition and the lastAppliedRevision stored before.
C16_ValidationBlocksApply ==
  [][\A k \in Keys :
       /\ (Validated(k) /\ FailsTemplate(loc[k])
             /\ ~loc[k].obj.spec.continueOnValidationError) =>
             /\ loc'[k].pc = "patch" /\ loc'[k].hist.failed = "validate"
             /\ ~loc'[k].hist.didApply /\ crds' = crds
       /\ (StatusWritten(k) /\ loc[k].hist.failed = "validate") =>
             /\ ~loc[k].hist.didApply
             /\ stored'[k].status.ready =
                  [status |-> "False", reason |-> "CRDValidationFailed"]
             /\ stored'[k].status.lastAppliedRevision =
                  stored[k].status.lastAppliedRevision]_vars

\* C16 witness: the file of v1.0 holds a CRD that rejects the template; the
\* reconcile has written CRDValidationFailed and the cluster has no CRD of it.
C16_Witness ==
  \E k \in Keys :
    /\ WroteStatus(k) /\ ret[k].primary
    /\ ~stored[k].spec.continueOnValidationError /\ stored[k].spec.template # ""
    /\ stored[k].status.ready =
         [status |-> "False", reason |-> "CRDValidationFailed"]
    /\ stored[k].status.lastAttemptedRevision = VerStr("v", 1, 0)
    /\ stored[k].status.lastAppliedRevision = NoRev
    /\ \A n \in {"a", "b"} : crds["host"][n] = Absent

\* C17: a Reconcile that ended in a template validation failure with
\* continueOnValidationError false returns no error and asks for no requeue,
\* so the work queue does not run the Bootstrap again on its account.
C17_NoRetryAfterValidationFailure ==
  \A k \in Keys :
    (WroteStatus(k) /\ stored[k].status.ready.reason = "CRDValidationFailed") =>
       /\ ~ret[k].err /\ ~ret[k].primary
       /\ ret[k].requeueAfter = 0

\* C18: with an example failing validation and continueOnValidationError
\* true, the reconcile goes on to apply and wait, and when both succeed the
\* status it writes has lastAppliedRevision equal to the revision and
\* Ready=True.
C18_ContinueOnValidationError ==
  [][\A k \in Keys :
       /\ (Validated(k) /\ FailsTemplate(loc[k])
             /\ loc[k].obj.spec.continueOnValidationError) =>
             /\ loc'[k].pc = "apply" /\ loc'[k].hist.overruled
             /\ ~loc'[k].err /\ loc'[k].hist.failed = ""
       /\ (StatusWritten(k) /\ loc[k].hist.overruled /\ loc[k].hist.failed = "") =>
             /\ loc[k].hist.didApply
             /\ stored'[k].status.lastAppliedRevision = loc[k].revision
             /\ stored'[k].status.ready.status = "True"
             /\ ~ret'[k].err]_vars

\* C18 witness: the file of v1.0, whose CRD b rejects the template, has been
\* applied and the reconcile has written Ready=True with v1.0 applied.
C18_Witness ==
  \E k \in Keys :
    /\ WroteStatus(k) /\ ~ret[k].err
    /\ stored[k].spec.continueOnValidationError /\ stored[k].spec.template # ""
    /\ stored[k].status.ready.status = "True"
    /\ stored[k].status.lastAppliedRevision = VerStr("v", 1, 0)
    /\ OwnedEntry(crds["host"]["b"], GetName(k))

\* The positions of the CustomResourceDefinition documents of a manifest.
CRDPositions(docs) ==
  {i \in 1..Len(docs) : docs[i].kind = "CustomResourceDefinition"}

\* C19: of the documents of a manifest, the objects labelled and applied are
\* exactly those of kind CustomResourceDefinition, in file order; no other
\* document is among them, and the cluster holds exactly the CRDs named by
\* those documents.
C19_OnlyCRDsInFileOrder ==
  (loc = "done" /\ src.fn = "readObjects") =>
     LET docs == src.docs
         at == CRDPositions(docs)
     IN  /\ Len(ret.objects) = Cardinality(at)
         /\ \A i \in at :
              LET j == Cardinality({h \in at : h <= i})
              IN  /\ ret.objects[j].kind = docs[i].kind
                  /\ ret.objects[j].name = docs[i].name
                  /\ ret.objects[j].owner # ""
         /\ \A n \in CRDNames :
              crds["host"][n].present <=> \E i \in at : docs[i].name = n

\* C19 witness: a manifest of one CRD and three other documents, one of them
\* with the name of another CRD, gave exactly one applied object.
C19_Witness ==
  /\ loc = "done" /\ src.fn = "readObjects"
  /\ Len(src.docs) = 4 /\ Cardinality(CRDPositions(src.docs)) = 1
  /\ src.docs[3].kind = "CustomResourceDefinition" /\ src.docs[3].name = "a"
  /\ src.docs[1].name = "b"
  /\ Len(ret.objects) = 1
  /\ crds["host"]["a"].present /\ ~crds["host"]["b"].present

\* The chart versions that parse as semver and satisfy the constraint.
Eligible(versions, constraint) ==
  {v \in versions : v.form \in VerForms /\ Check(constraint, NewVersion(v))}

\* C20: when some chart version parses and satisfies the constraint, helm
\* HasUpdate returns no error and decides on the highest of them in semver
\* order: an update it reports is one of them with none of them higher, it
\* reports one whenever nothing was applied before, and it reports none only
\* when the applied revision is not lower than any of them.  Tags that do
\* not parse take no part.
C20_HelmHighestSatisfying ==
  (loc = "done" /\ src.fn = "HasUpdate" /\ Eligible(src.versions, src.semver) # {}) =>
     LET cands == Eligible(src.versions, src.semver)
         r == ret.result
     IN  /\ ~r.err
         /\ r.update =>
              /\ r.rev \in cands
              /\ \A w \in cands : ~Lower(r.rev, w)
         /\ src.last = NoRev => r.update
         /\ ~r.update => \A w \in cands : ~Lower(src.last, w)

\* C20 witness: constraint >=1.0 <2.0 over {v0.9, v1.0, v1.5, v2.0} and a tag
\* that is no version gives v1.5.
C20_Witness ==
  /\ loc = "done" /\ src.fn = "HasUpdate"
  /\ src.versions = {VerStr("v", 0, 9), VerStr("v", 1, 0), VerStr("v", 1, 5),
                     VerStr("v", 2, 0), BadStr}
  /\ src.semver = Range(1, 0, 2, 0) /\ src.last = NoRev
  /\ ret.result = Result(FALSE, TRUE, VerStr("v", 1, 5))

\* The new schema is tighter than the installed one.
Tighter(old, new) ==
  <<old, new>> \in {<<"accepts", "strict">>, <<"accepts", "rejects">>,
                    <<"strict", "rejects">>}

\* The names of the CRDs of the file fetched in reconcile state l whose
\* schema breaks the one installed under that name.
BreakingNames(l) ==
  {Documents(l.file)[i].name : i \in
     {j \in 1..Len(Documents(l.file)) :
        /\ Documents(l.file)[j].kind = "CustomResourceDefinition"
        /\ crds["host"][Documents(l.file)[j].name].present
        /\ Tighter(crds["host"][Documents(l.file)[j].name].schema,
                   Documents(l.file)[j].schema)}}

\* The step of k that parses the fetched file and runs the breaking-change
\* check without a failure of resource-manager construction, of parsing or
\* of the detection.
Detected(k) ==
  /\ loc[k].pc = "prepare" /\ loc'[k].pc # "prepare"
  /\ loc'[k].hist.failed \notin {"rm", "read", "detect"}

Elements(seq) == {seq[i] : i \in 1..Len(seq)}

\* C21: with updatePolicy safe and a breaking change against an installed
\* CRD, the reconcile ends at the check with Ready=False and reason
\* BreakingChangeDetected, applies nothing, and the status it writes records
\* the changes and keeps lastAppliedRevision; with updatePolicy force the
\* changes are recorded and the reconcile goes on to apply.
C21_UpdatePolicy ==
  [][\A k \in Keys :
       /\ (Detected(k) /\ BreakingNames(loc[k]) # {}
             /\ loc[k].obj.spec.updatePolicy = "safe") =>
             /\ loc'[k].pc = "patch" /\ loc'[k].hist.failed = "breaking"
             /\ ~loc'[k].hist.didApply /\ crds' = crds
             /\ Elements(loc'[k].obj.status.breakingChanges) = BreakingNames(loc[k])
       /\ (StatusWritten(k) /\ loc[k].hist.failed = "breaking") =>
             /\ stored'[k].status.ready =
                  [status |-> "False", reason |-> "BreakingChangeDetected"]
             /\ stored'[k].status.breakingChanges # <<>>
             /\ stored'[k].status.lastAppliedRevision =
                  stored[k].status.lastAppliedRevision
       /\ (Detected(k) /\ BreakingNames(loc[k]) # {}
             /\ loc[k].obj.spec.updatePolicy = "force") =>
             /\ loc'[k].pc = "apply" /\ ~loc'[k].err
             /\ Elements(loc'[k].obj.status.breakingChanges) = BreakingNames(loc[k])]_vars

\* C21 witness: v1.0 is installed, v1.1 tightens the schema of CRD a, the
\* policy is safe; the reconcile has written BreakingChangeDetected, the
\* change is on record and CRD a is as v1.0 left it.
C21_Witness ==
  \E k \in Keys :
    /\ WroteStatus(k) /\ ret[k].primary
    /\ stored[k].spec.updatePolicy = "safe"
    /\ stored[k].status.ready =
         [status |-> "False", reason |-> "BreakingChangeDetected"]
    /\ stored[k].status.breakingChanges = <<"a">>
    /\ stored[k].status.lastAppliedRevision = VerStr("v", 1, 0)
    /\ stored[k].status.lastAttemptedRevision = VerStr("v", 1, 1)
    /\ crds["host"]["a"].schema = "accepts"

\* The versions the source of k offers that satisfy the constraint and have
\* none above them.
Offered(k) ==
  LET all == Eligible({src[k].latest} \cup src[k].versions, stored[k].spec.semver)
  IN  {v \in all : \A w \in all : ~Lower(v, w)}

\* Every CRD of the manifest of revision rev is in the host cluster with the
\* owner label name, and there is one.
Installed(rev, name) ==
  LET docs == Documents(ContentOf(rev))
  IN  /\ CRDPositions(docs) # {}
      /\ \A i \in CRDPositions(docs) : OwnedEntry(crds["host"][docs[i].name], name)

Bootstrapped(k) ==
  /\ stored[k].status.lastAppliedRevision \in Offered(k)
  /\ Installed(stored[k].status.lastAppliedRevision, GetName(k))
  /\ stored[k].status.ready.status = "True"
  /\ stored[k].finalizer

\* C22: a newly created Bootstrap whose source steadily offers a version
\* satisfying the constraint, with no stage failing and reconciles scheduled
\* fairly, eventually has its CRDs installed with the owner label,
\* lastAppliedRevision equal to the offered version, Ready=True and the
\* finalizer.
C22_EventuallyBootstrapped == \A k \in Keys : <>Bootstrapped(k)

\* C22 witness: the first reconcile has returned and the Bootstrap is
\* bootstrapped with the one version its chart repository offers.
C22_Witness ==
  \E k \in Keys :
    /\ Bootstrapped(k) /\ WroteStatus(k) /\ ~ret[k].err
    /\ src[k].versions = {VerStr("v", 1, 0), BadStr}
    /\ stored[k].status.lastAppliedRevision = VerStr("v", 1, 0)

\* The one candidate the upstream of a "Decide" input offers.
Candidate == IF src.sources = {"helm"} THEN CHOOSE c \in src.versions : TRUE ELSE src.latest

\* A string that parses as semver.
Parses(s) == s.form \in VerForms

\* The decision the four semver providers are to take on candidate c,
\* constraint cs and lastAppliedRevision a.
Decision(c, cs, a) ==
  IF ~Check(cs, NewVersion(c)) THEN Result(FALSE, FALSE, a)
  ELSE IF a = NoRev THEN Result(FALSE, TRUE, c)
  ELSE IF ~Lower(a, c) THEN Result(FALSE, FALSE, a)
  ELSE Result(FALSE, TRUE, c)

\* C23: HasUpdate of the ConfigMap, GitHub, GitLab and Helm providers, for
\* every candidate, constraint and lastAppliedRevision (empty or a version),
\* returns no update with the applied revision when the candidate does not
\* satisfy the constraint, the candidate when nothing was applied, no update
\* when the applied revision is equal or higher, and the candidate otherwise;
\* all four take the same decision.
C23_SameDecision ==
  (loc = "done" /\ src.fn = "Decide" /\ Parses(Candidate)
     /\ (src.last = NoRev \/ Parses(src.last))) =>
     ret.result = Decision(Candidate, src.semver, src.last)

\* The same for the three providers with a single latest version, and for
\* Helm when the candidate satisfies the constraint.
C23_DecisionWhereEligible ==
  (loc = "done" /\ src.fn = "Decide" /\ Parses(Candidate)
     /\ (src.last = NoRev \/ Parses(src.last))
     /\ (src.sources = {"helm"} => Check(src.semver, NewVersion(Candidate)))) =>
     ret.result = Decision(Candidate, src.semver, src.last)

\* C24: for a semver source, when lastAppliedRevision is not empty and does
\* not parse as semver (a digest a URL source left), HasUpdate returns an
\* error for every candidate and every constraint, never an update or a
\* no-update result.
C24_MalformedAppliedIsError ==
  (loc = "done" /\ src.fn = "Decide" /\ src.last # NoRev /\ ~Parses(src.last)) =>
     ret.result.err

\* The first provider, in the order helm, configmap, gitlab, github, url,
\* whose sub-field is among sources ("" when there is none).
FirstPopulated(sources) ==
  LET order == <<"helm", "configmap", "gitlab", "github", "url">>
      at == {i \in 1..5 : order[i] \in sources}
  IN  IF at = {} THEN ""
      ELSE order[CHOOSE i \in at : \A j \in at : i <= j]

\* HasUpdate and FetchCRD of the chain for a Bootstrap with only the
\* sub-field of provider p populated and the upstream of the input.
Alone(p) ==
  LET obj == [NoObject EXCEPT !.exists = TRUE,
                              !.spec.sources = {p},
                              !.spec.semver = src.semver,
                              !.status.lastAppliedRevision = src.last]
      s == [latest |-> src.latest, versions |-> src.versions, content |-> 1]
  IN  [results |-> HelmHasUpdate(obj, s),
       fetch |-> [r \in HelmHasUpdate(obj, s) |-> HelmFetchCRD(obj, r.rev, s, TRUE)]]

Fetches(k) ==
  /\ loc[k].pc = "fetch" /\ loc'[k].pc # "fetch"
  /\ loc'[k].hist.failed # "temp"

\* C26: when the version key of the ConfigMap is no longer the revision
\* HasUpdate returned, FetchCRD fails, the reconcile ends with Ready=False
\* and reason CRDFetchFailed without having applied a CRD, and the status it
\* writes keeps lastAppliedRevision.
C26_ConfigMapRace ==
  [][\A k \in Keys :
       /\ (Fetches(k) /\ Handler(stored[k].spec) = "configmap"
             /\ src[k].latest # loc[k].revision) =>
             /\ loc'[k].pc = "patch" /\ loc'[k].hist.failed = "fetch"
             /\ ~loc'[k].hist.didApply /\ crds' = crds
       /\ (StatusWritten(k) /\ loc[k].hist.failed = "fetch") =>
             /\ ~loc[k].hist.didApply
             /\ stored'[k].status.ready =
                  [status |-> "False", reason |-> "CRDFetchFailed"]
             /\ stored'[k].status.lastAppliedRevision =
                  stored[k].status.lastAppliedRevision]_vars

\* C26 witness: HasUpdate saw v1.0, the ConfigMap went to v1.1 before the
\* fetch, and with no call failing the reconcile has written CRDFetchFailed.
C26_Witness ==
  \E k \in Keys :
    /\ WroteStatus(k) /\ ret[k].primary /\ faults = 0
    /\ Handler(stored[k].spec) = "configmap"
    /\ stored[k].status.ready =
         [status |-> "False", reason |-> "CRDFetchFailed"]
    /\ stored[k].status.lastAttemptedRevision = VerStr("v", 1, 0)
    /\ src[k].latest = VerStr("v", 1, 1)
    /\ stored[k].status.lastAppliedRevision = NoRev
    /\ \A n \in {"a", "b"} : ~crds["host"][n].present

\* C27: when no chart version satisfies the constraint, or the chart has no
\* version, Helm HasUpdate returns no update with the current
\* lastAppliedRevision and no error, and does not crash.
C27_HelmNothingEligible ==
  (loc = "done" /\ src.fn = "HasUpdate" /\ Eligible(src.versions, src.semver) = {}) =>
     /\ ~ret.result.panic
     /\ ret.result = Result(FALSE, FALSE, src.last)

\* C28: a reconcile that fails at the breaking-change check, the validation,
\* the apply or the wait leaves every count of lastAppliedCRDNames in the
\* status it writes as it was stored, whether the map was empty or had
\* entries; only a reconcile whose apply and wait succeeded adds one per CRD.
C28_CountsOnlyOnSuccess ==
  [][\A k \in Keys :
       (StatusWritten(k)
          /\ loc[k].hist.failed \in {"detect", "breaking", "validate", "apply", "wait"}) =>
          stored'[k].status.lastAppliedCRDNames =
             stored[k].status.lastAppliedCRDNames]_vars

\* C29: when a Reconcile that created a temp directory returns, on whichever
\* exit path, the directory no longer exists.
C29_TempDirRemoved ==
  \A k \in Keys :
    (loc[k].pc = "idle" /\ ret[k].path = "normal") => ~ret[k].tempLeft

AppliedOnlyByOther(k, n) ==
  /\ stored[k].status.lastAppliedCRDNames[n] = 0
  /\ \E j \in SharedKeys \ {k} :
       stored[j].exists /\ stored[j].status.lastAppliedCRDNames[n] > 0

\* C31: the teardown of a Bootstrap with prune=true deletes no CRD that only
\* another Bootstrap applied, a Bootstrap of the same name in another
\* namespace included.
C31_PruneIsolation ==
  [][\A k \in SharedKeys : \A n \in CRDNames :
       (/\ loc[k].pc = "delete" /\ loc'[k] # loc[k]
        /\ crds["host"][n].present /\ ~crds'["host"][n].present)
          => ~AppliedOnlyByOther(k, n)]_vars

\* C32: for a Bootstrap whose spec.kubeConfig names a remote cluster, once the
\* teardown with prune=true has removed the finalizer, no CRD of the target
\* cluster carries the owner label of the Bootstrap.
C32_PruneInTargetCluster ==
  \A k \in Keys :
    (TornDown(k) /\ stored[k].spec.prune /\ stored[k].spec.kubeConfig # "") =>
       \A n \in CRDNames :
          ~OwnedEntry(crds[TargetCluster(stored[k])][n], GetName(k))

\* C33: in every status Reconcile has written, Ready=True comes with a
\* lastAppliedRevision that is not empty.
C33_ReadyMeansApplied ==
  \A k \in Keys :
    (stored[k].exists /\ stored[k].status.ready.status = "True") =>
       stored[k].status.lastAppliedRevision # NoRev

\* C34: for a semver-driven source, in every status Reconcile has written
\* with both revisions set, lastAttemptedRevision is not lower than
\* lastAppliedRevision in semver order; and the status a reconcile hands to
\* the deferred patch after a successful apply has the two equal.
C34_AttemptedNotBelowApplied ==
  \A k \in Keys :
    LET st == stored[k].status
        l == loc[k]
    IN  SemverDriven(k) =>
          /\ (/\ stored[k].exists
              /\ st.lastAttemptedRevision # NoRev
              /\ st.lastAppliedRevision # NoRev) =>
                /\ NewVersion(st.lastAttemptedRevision).ok
                /\ NewVersion(st.lastAppliedRevision).ok
                /\ ~Lower(NewVersion(st.lastAttemptedRevision),
                          NewVersion(st.lastAppliedRevision))
          /\ (l.pc = "patch" /\ l.hist.didApply /\ ~l.err) =>
                /\ l.obj.status.lastAttemptedRevision # NoRev
                /\ l.obj.status.lastAttemptedRevision = l.obj.status.lastAppliedRevision

\* C34 witness: v1.0 is applied and the attempt of v1.1 failed, so the status
\* written has lastAttemptedRevision above lastAppliedRevision.
C34_Witness ==
  \E k \in Keys :
    /\ SemverDriven(k) /\ loc[k].pc = "idle"
    /\ ret[k].path = "normal" /\ ret[k].err /\ ret[k].patched
    /\ stored[k].status.lastAppliedRevision = VerStr("v", 1, 0)
    /\ stored[k].status.lastAttemptedRevision = VerStr("v", 1, 1)

\* C35: with spec.template set, a CRD version without a schema is skipped: a
\* parsed CRD with such a version does not make validateObjects panic, and
\* validateObjects returns an error only when some schema rejects the
\* example of the template.
C35_SchemalessVersionSkipped ==
  (loc = "done" /\ src.fn = "validateObjects") =>
     /\ ret.validation # "panic"
     /\ (ret.validation = "error") <=>
           (\E i \in 1..Len(src.docs) : src.docs[i].schema = "rejects")

\* The files of the chart that lie under a directory named crds, at any depth.
UnderCrds(files) ==
  {f \in files : \E i \in 1..(Len(f) - 1) : f[i] = "crds"}

\* C39: createCrdYaml succeeds and the bundle holds, each after its own
\* separator, exactly the files under a directory named crds, those in
\* nested subdirectories included: as many separators as such files.
C39_BundleHoldsAllCrdFiles ==
  (loc = "done" /\ src.fn = "createCrdYaml") =>
     /\ ~ret.bundle.err
     /\ {ret.bundle.parts[i] : i \in 1..Len(ret.bundle.parts)} = UnderCrds(src.files)
     /\ Len(ret.bundle.parts) = Cardinality(UnderCrds(src.files))

\* C39 without nested subdirectories: when no directory named crds has a
\* subdirectory, the bundle holds exactly the files of the crds directories.
C39_FlatCrdsBundled ==
  (/\ loc = "done" /\ src.fn = "createCrdYaml"
   /\ \A f \in UnderCrds(src.files) : f[Len(f) - 1] = "crds") =>
     /\ ~ret.bundle.err
     /\ {ret.bundle.parts[i] : i \in 1..Len(ret.bundle.parts)} = UnderCrds(src.files)
     /\ Len(ret.bundle.parts) = Cardinality(UnderCrds(src.files))

\* The versions of the installed CRD that have a schema and have no version
\* of their name with a schema in the incoming CRD.
RemovedVersions(old, new) ==
  {old[i].name : i \in
     {j \in 1..Len(old) :
        /\ old[j].schema # ""
        /\ ~\E h \in 1..Len(new) : new[h].name = old[j].name /\ new[h].schema # ""}}

\* Every version both CRDs have a schema for has the same schema in both.
SharedUnchanged(old, new) ==
  \A i \in 1..Len(old) : \A h \in 1..Len(new) :
    (old[i].name = new[h].name /\ old[i].schema # "" /\ new[h].schema # "")
       => old[i].schema = new[h].schema

\* C40: DetectBreakingChanges reports "removed" for exactly the versions of
\* the installed CRD that have a schema and no same-named version with a
\* schema in the incoming CRD, once each; it reports nothing for an installed
\* CRD without versions, and nothing but removals when the schema of every
\* shared version is unchanged.
C40_VersionRemoved ==
  (loc = "done" /\ src.fn = "DetectBreakingChanges") =>
     LET out == ret.breaking
         removed == {i \in 1..Len(out) : out[i].change = "removed"}
     IN  /\ {out[i].version : i \in removed} = RemovedVersions(src.old, src.new)
         /\ Cardinality(removed) = Cardinality(RemovedVersions(src.old, src.new))
         /\ src.old = <<>> => out = <<>>
         /\ SharedUnchanged(src.old, src.new) => Cardinality(removed) = Len(out)

\* C40 witness: v1 and v2 are installed with a schema, the incoming CRD has
\* v1 only, with the same schema: the one change reported is that v2 was
\* removed.
C40_Witness ==
  /\ loc = "done" /\ src.fn = "DetectBreakingChanges"
  /\ src.old = <<Version("v1", "accepts"), Version("v2", "accepts")>>
  /\ src.new = <<Version("v1", "accepts")>>
  /\ ret.breaking = <<[version |-> "v2", change |-> "removed"]>>

\* C38: no signal is sent on a closed channel and no channel is closed
\* twice; the channel in the map is open, and a channel that left the map is
\* closed; RegisterBootstrap returns the channel of the key while the key is
\* registered, and UnregisterBootstrap closes that channel and removes the key.
C38_RegisterUnregister ==
  [][/\ hook'.panics = {}
     /\ hook'.triggers # NoChannel =>
           hook'.chans[hook'.triggers].made /\ ~hook'.chans[hook'.triggers].closed
     /\ \A i \in Made : i # hook.triggers => hook.chans[i].closed
     /\ \A p \in Callers :
          /\ (hook.calls[p].pc = "body" /\ hook'.calls[p].pc = "unlock"
                /\ hook.calls[p].op = "register" /\ hook.triggers # NoChannel) =>
                /\ hook'.calls[p].ch = hook.triggers
                /\ hook'.triggers = hook.triggers
                /\ hook'.chans = hook.chans
          /\ (hook.calls[p].pc = "body" /\ hook'.calls[p].pc = "unlock"
                /\ hook.calls[p].op = "unregister" /\ hook.triggers # NoChannel) =>
                /\ hook'.chans[hook.triggers].closed
                /\ hook'.triggers = NoChannel]_vars

\* C38 witness: the key was registered, unregistered and registered again:
\* the first channel is closed, the second is in the map and open, and a
\* trigger is about to send while another goroutine waits to unregister.
C38_Witness ==
  /\ hook.chans[1].closed
  /\ hook.triggers = 2 /\ ~hook.chans[2].closed
  /\ \E p, q \in Callers :
       /\ hook.calls[p].op = "trigger" /\ hook.calls[p].pc = "body"
       /\ hook.calls[q].op = "unregister" /\ hook.calls[q].pc = "lock"

\* The call of p is a triggerReconciliation that has not returned yet.
Triggering(p) == hook.calls[p].op = "trigger" /\ hook.calls[p].pc # "idle"

\* C37: triggerReconciliation never blocks: a channel never holds more than
\* one pending signal; under the read lock the trigger sends when the slot is
\* free, leaves the channel as it is when a signal is pending, and does
\* nothing for an unregistered key; and every call, whatever the other
\* goroutines do, returns.
C37_TriggerNeverBlocks ==
  /\ [](\A i \in 1..MaxChannels : hook.chans[i].len <= 1)
  /\ [][\A p \in Callers :
          (Triggering(p) /\ hook.calls[p].pc = "body" /\ hook'.calls[p].pc # "body") =>
             /\ hook'.calls[p].pc = "unlock"
             /\ hook'.triggers = hook.triggers
             /\ hook.triggers = NoChannel => hook'.chans = hook.chans
             /\ hook.triggers # NoChannel =>
                   /\ hook'.chans[hook.triggers].len = 1
                   /\ \A i \in 1..MaxChannels :
                        i # hook.triggers => hook'.chans[i] = hook.chans[i]]_vars
  /\ \A p \in Callers : Triggering(p) ~> (hook.calls[p].pc = "idle")

\* C37 witness: a signal is pending, two triggers of the same key hold the
\* read lock together, and one of them has already been coalesced.
C37_Witness ==
  /\ hook.triggers # NoChannel /\ hook.chans[hook.triggers].len = 1
  /\ \E p, q \in Callers :
       /\ p # q /\ {p, q} \subseteq hook.readers
       /\ hook.calls[p].op = "trigger" /\ hook.calls[p].pc = "unlock"
       /\ hook.calls[q].op = "trigger" /\ hook.calls[q].pc = "body"

\* C36: with the webhook enabled and a trigger channel for the Bootstrap,
\* Reconcile is at HasUpdate only after it received a signal from the
\* channel, or with spec.interval gone by since the Bootstrap was created or
\* last reconciled, or with the context cancelled.
C36_WaitsForTrigger ==
  (hook.rec.pc = "hasupdate" /\ hook.rec.via # "nochannel") =>
     \/ hook.rec.via = "signal"
     \/ hook.elapsed
     \/ hook.cancelled

====
